---- MODULE Spec2Model ----
(***************************************************************************)
(* A state-machine model of the glomerate entity/component runtime:        *)
(* EntityManager (identity table, lifecycle, queries), ComponentManager    *)
(* (type registry, per-entity masks), ComponentPool / KeyedComponentPool   *)
(* (dense swap-remove storage, soft-remove protocol) and the traversal     *)
(* protocol of EntityManager::EntityCollection.                            *)
(*                                                                         *)
(* Conventions.  C++ vectors are sequences; a C++ index i (0-based) is     *)
(* position i+1 of the sequence.  An Entity::Id is a record                *)
(* [index, gen].  An unordered_map is a function whose DOMAIN is the set   *)
(* of keys present.  A std::list is a sequence of nodes [nid, idx]: nid    *)
(* is the node's identity (what a list iterator refers to), idx the        *)
(* size_t it holds.  A list of callbacks is a sequence of nodes [nid, cb]: *)
(* cb says what the client's callback does when it runs.  A failed         *)
(* operation leaves its error in last.err.                                 *)
(***************************************************************************)
EXTENDS Integers, Sequences, FiniteSets, TLC

\* ---------------------------------------------------------------- bounds
MaxIndex == 2       \* Spec, SpecLife, SpecKeyed: the identity tables grow to indexes 0..MaxIndex
MaxGen == 1         \* Spec, SpecIter, SpecKeyed: no index is destroyed more than MaxGen times
MaxPool == 3        \* Spec: no pool grows beyond MaxPool records
LifeMaxGen == 2     \* SpecLife: no index is destroyed more than LifeMaxGen times
LifeMaxPool == 1    \* SpecLife: no pool grows beyond LifeMaxPool records
MaxSubs == 1        \* SpecLife: no signal holds more than MaxSubs callbacks
IterMaxIndex == 3   \* SpecIter: the identity tables grow to indexes 0..IterMaxIndex
IterMaxPool == 3    \* SpecIter: no pool grows beyond IterMaxPool records
KeyedMaxPool == 2   \* SpecKeyed: no pool grows beyond KeyedMaxPool records
LockMaxPool == 4    \* SpecLock: no pool grows beyond LockMaxPool records
EvMaxIndex == 1     \* SpecEvents: the identity tables grow to indexes 0..EvMaxIndex
EvMaxSubs == 2      \* SpecEvents: no signal holds more than EvMaxSubs callbacks
EvMaxHandles == 3   \* SpecEvents: the client holds no more than EvMaxHandles Subscriptions
\* the recycle threshold of NewEntity, scaled down so that recycling happens
ECS_ENTITY_RECYCLE_COUNT == 2

\* the number of bits of a component mask (MAX_COMPONENTS, 64 in the source), scaled
\* down so that a client with four types can run out of bits
MAX_COMPONENTS == 2

\* ------------------------------------------------------------- constants
INVALID_COMP_INDEX == -1

Types == {"A", "B", "C", "K"}     \* "A", "B", "C": plain component types, "K": a keyed one
KeyedTypes == {"K"}          \* the types the client registers as keyed
Val == {1, 2}                \* component values (and keys)

NullId == [index |-> 0, gen |-> 0]        \* Entity::Id()
Id(i, g) == [index |-> i, gen |-> g]

VARIABLES
    entIndexToGen,        \* EntityManager: vector<gen_t>
    indexIsAlive,         \* EntityManager: vector<bool>
    freeEntityIndexes,    \* EntityManager: queue<eid_t>
    entCompMasks,         \* ComponentManager: vector<ComponentMask>, a mask is its set of bits
    compTypeToCompIndex,  \* ComponentManager: type -> bit / pool index
    componentPools,       \* ComponentManager: vector<BaseComponentPool*>
    eventSignals,         \* EntityManager: event type -> list of (Entity, Event) callbacks
    entityEventSignals,   \* EntityManager: Entity::Id -> event type -> list of callbacks
    nonEntityEventSignals,\* EntityManager: event type -> list of (Event) callbacks
    subscriptions,        \* the Subscription objects the client holds, in the order it got them
    emit,                 \* the Emit that is running: its list and its cursor
    iter,                 \* the EntityCollection of the running traversal and its iterator
    last,                 \* the operation that ran last and how it ended
    crashed               \* an error escaped a destructor or an assertion failed

vars == <<entIndexToGen, indexIsAlive, freeEntityIndexes, entCompMasks,
          compTypeToCompIndex, componentPools, eventSignals, entityEventSignals,
          nonEntityEventSignals, subscriptions, emit, iter, last, crashed>>

emVars == <<entIndexToGen, indexIsAlive, freeEntityIndexes>>
cmVars == <<entCompMasks, compTypeToCompIndex, componentPools>>
evVars == <<eventSignals, entityEventSignals, nonEntityEventSignals, subscriptions, emit>>

\* ---------------------------------------------------------------- helpers
At0(s, i) == s[i + 1]
Set0(s, i, x) == [s EXCEPT ![i + 1] = x]
MapPut(m, k, x) == [j \in (DOMAIN m) \cup {k} |-> IF j = k THEN x ELSE m[j]]
MapDel(m, k) == [j \in (DOMAIN m) \ {k} |-> m[j]]
PopBack(s) == SubSeq(s, 1, Len(s) - 1)

\* ------------------------------------------------------------ std::list
FreshNode(lst) ==
    CHOOSE n \in 1..(Len(lst) + 1) :
        /\ \A k \in 1..Len(lst) : lst[k].nid # n
        /\ \A m \in 1..(n - 1) : \E k \in 1..Len(lst) : lst[k].nid = m
ListErase(lst, nid) == SelectSeq(lst, LAMBDA x : x.nid # nid)
ListAssign(lst, nid, v) ==
    [k \in 1..Len(lst) |-> IF lst[k].nid = nid THEN [nid |-> nid, idx |-> v] ELSE lst[k]]

\* -------------------------------------------------------- ComponentPool
Storage(e, v) == [eid |-> e, value |-> v, keyedList |-> 0, keyedIterator |-> 0]

ComponentPool(isKeyed) ==
    [keyed |-> isKeyed,
     components |-> << >>,
     entIndexToCompIndex |-> << >>,
     softRemoveMode |-> FALSE,
     softRemoveCompIndexes |-> << >>,
     compKeyToCompIndex |-> << >>]

Size(p) == Len(p.components)

HasComponent(p, e) ==
    /\ e.index \in DOMAIN p.entIndexToCompIndex
    /\ p.entIndexToCompIndex[e.index] # INVALID_COMP_INDEX

\* a Set that appends the record and leaves entIndexToCompIndex as it was
ComponentPool_Set_KeepsMapping(p, e, v) ==
    [p EXCEPT !.components = Append(@, Storage(e, v)),
              !.entIndexToCompIndex =
                  IF e.index \in DOMAIN @ THEN @ ELSE MapPut(@, e.index, Len(p.components))]

ComponentPool_Set(p, e, v) ==
    LET newCompIndex == Len(p.components) IN
    [p EXCEPT !.components = Append(@, Storage(e, v)),
              !.entIndexToCompIndex = MapPut(@, e.index, newCompIndex)]

KeyedComponentPool_Set(p, e, v) ==
    LET newCompIndex == Len(p.components)
        lst == IF v \in DOMAIN p.compKeyToCompIndex THEN p.compKeyToCompIndex[v] ELSE << >>
        nid == FreshNode(lst)
    IN [p EXCEPT !.components =
                     Append(@, [eid |-> e, value |-> v, keyedList |-> v, keyedIterator |-> nid]),
                 !.entIndexToCompIndex = MapPut(@, e.index, newCompIndex),
                 !.compKeyToCompIndex =
                     MapPut(@, v, Append(lst, [nid |-> nid, idx |-> newCompIndex]))]

\* ComponentPool::Get: [err, value]
ComponentPool_Get(p, e) ==
    IF ~HasComponent(p, e) THEN [err |-> "runtime_error", value |-> 0]
    ELSE LET compIndex == p.entIndexToCompIndex[e.index] IN
         IF compIndex >= Len(p.components) THEN [err |-> "out_of_range", value |-> 0]
         ELSE [err |-> "ok", value |-> At0(p.components, compIndex).value]

\* the entity -> component index mapping of a record moved to compIndex
MovedMapping(m, moved, compIndex) ==
    IF moved.eid.index \in DOMAIN m THEN [m EXCEPT ![moved.eid.index] = compIndex] ELSE m

\* ComponentPool::remove: [p, err]
ComponentPool_remove(p, compIndex) ==
    LET n == Len(p.components) IN
    IF n = 0 THEN [p |-> p, err |-> "out_of_range"]   \* size() - 1 wraps; at() throws
    ELSE IF compIndex < n - 1
    THEN LET moved == p.components[n] IN
         [p |-> [p EXCEPT !.components = PopBack(Set0(@, compIndex, moved)),
                          !.entIndexToCompIndex = MovedMapping(@, moved, compIndex)],
          err |-> "ok"]
    ELSE [p |-> [p EXCEPT !.components = PopBack(@)], err |-> "ok"]

\* KeyedComponentPool::remove, first half: the record leaves its bucket, and a bucket
\* left empty leaves compKeyToCompIndex
Unlinked(p, compIndex) ==
    LET c == At0(p.components, compIndex) IN
    IF c.keyedList = 0 THEN p
    ELSE LET lst == ListErase(p.compKeyToCompIndex[c.keyedList], c.keyedIterator) IN
         [p EXCEPT !.compKeyToCompIndex =
                       IF lst = << >> THEN MapDel(@, c.value) ELSE MapPut(@, c.keyedList, lst),
                   !.components = Set0(@, compIndex, [c EXCEPT !.keyedList = 0])]

\* KeyedComponentPool::remove, second half: the last record takes the freed slot
Compacted(p, compIndex) ==
    LET n == Len(p.components)
        moved == p.components[n]
    IN IF compIndex < n - 1
       THEN [p EXCEPT !.components = PopBack(Set0(@, compIndex, moved)),
                      !.compKeyToCompIndex =
                          IF moved.keyedList # 0
                          THEN [@ EXCEPT ![moved.keyedList] =
                                    ListAssign(@, moved.keyedIterator, compIndex)]
                          ELSE @,
                      !.entIndexToCompIndex = MovedMapping(@, moved, compIndex)]
       ELSE [p EXCEPT !.components = PopBack(@)]

\* KeyedComponentPool::remove: [p, err]
KeyedComponentPool_remove(p, compIndex) ==
    IF compIndex >= Len(p.components)
    THEN [p |-> p, err |-> "out_of_range"]      \* components.at(compIndex)
    ELSE [p |-> Compacted(Unlinked(p, compIndex), compIndex), err |-> "ok"]

\* the virtual call remove(compIndex)
remove(p, compIndex) ==
    IF p.keyed THEN KeyedComponentPool_remove(p, compIndex)
    ELSE ComponentPool_remove(p, compIndex)

\* ComponentPool::softRemove: [p, err]
softRemove(p, compIndex) ==
    IF compIndex >= Len(p.components) THEN [p |-> p, err |-> "assertion"]
    ELSE [p |-> [p EXCEPT !.components =
                              Set0(@, compIndex, [At0(@, compIndex) EXCEPT !.eid = NullId]),
                          !.softRemoveCompIndexes = Append(@, compIndex)],
          err |-> "ok"]

\* ComponentPool::Remove: [p, err]
ComponentPool_Remove(p, e) ==
    IF ~HasComponent(p, e) THEN [p |-> p, err |-> "runtime_error"]
    ELSE LET removeIndex == p.entIndexToCompIndex[e.index]
             p1 == [p EXCEPT !.entIndexToCompIndex[e.index] = INVALID_COMP_INDEX]
         IN IF p.softRemoveMode THEN softRemove(p1, removeIndex) ELSE remove(p1, removeIndex)

\* a release of the lock that forgets the deferred removals
Drain_ForgetsQueue(p) ==
    [p |-> [p EXCEPT !.softRemoveCompIndexes = << >>], err |-> "ok"]

\* the loop of toggleSoftRemove(false): [p, err]
RECURSIVE Drain(_)
Drained(r) == IF r.err # "ok" THEN r ELSE Drain(r.p)
Drain(p) ==
    IF p.softRemoveCompIndexes = << >> THEN [p |-> p, err |-> "ok"]
    ELSE Drained(remove([p EXCEPT !.softRemoveCompIndexes = Tail(@)],
                        Head(p.softRemoveCompIndexes)))

\* toggleSoftRemove, its last line: softRemoveMode = enabled
ModeSet(r, enabled) ==
    IF r.err # "ok" THEN r ELSE [p |-> [r.p EXCEPT !.softRemoveMode = enabled], err |-> "ok"]

\* a toggleSoftRemove that lets a second lock in
toggleSoftRemove_Reentrant(p, enabled) ==
    IF enabled THEN ModeSet([p |-> p, err |-> "ok"], TRUE)
    ELSE IF ~p.softRemoveMode THEN [p |-> p, err |-> "runtime_error"]
    ELSE ModeSet(Drain(p), FALSE)

\* ComponentPool::toggleSoftRemove: [p, err]
toggleSoftRemove(p, enabled) ==
    IF enabled
    THEN IF p.softRemoveMode THEN [p |-> p, err |-> "runtime_error"]
         ELSE ModeSet([p |-> p, err |-> "ok"], TRUE)
    ELSE IF ~p.softRemoveMode THEN [p |-> p, err |-> "runtime_error"]
         ELSE ModeSet(Drain(p), FALSE)

entityAt(p, compIndex) == At0(p.components, compIndex).eid

\* ----------------------------------------------------- ComponentManager
Registered(T) == T \in DOMAIN compTypeToCompIndex
PoolOf(T) == At0(componentPools, compTypeToCompIndex[T])
MaskOf(e) == At0(entCompMasks, e.index)

\* a Has that answers false for a type it does not know
Has_UnknownIsFalse(T, e) ==
    [err |-> "ok", value |-> Registered(T) /\ compTypeToCompIndex[T] \in MaskOf(e)]

\* ComponentManager::Has: [err, value]
Has(T, e) ==
    IF ~Registered(T) THEN [err |-> "UnrecognizedComponentType", value |-> FALSE]
    ELSE [err |-> "ok", value |-> compTypeToCompIndex[T] \in MaskOf(e)]

\* ComponentManager::Get: [err, value]
Get(T, e) ==
    IF Has(T, e).err # "ok" THEN [err |-> Has(T, e).err, value |-> 0]
    ELSE IF ~Has(T, e).value THEN [err |-> "runtime_error", value |-> 0]
    ELSE ComponentPool_Get(PoolOf(T), e)

\* ComponentManager::Has(e, key), T a keyed type: [err, value]
HasKey(T, e, key) ==
    IF ~Registered(T) THEN [err |-> "UnrecognizedComponentType", value |-> FALSE]
    ELSE IF compTypeToCompIndex[T] \notin MaskOf(e) THEN [err |-> "ok", value |-> FALSE]
    ELSE [err |-> ComponentPool_Get(PoolOf(T), e).err,
          value |-> ComponentPool_Get(PoolOf(T), e) = [err |-> "ok", value |-> key]]

\* ComponentManager::RemoveAll, from pool index i on: [pools, masks, err]
RECURSIVE RemoveAllFrom(_, _, _, _)
\* a RemoveAll that takes the records away and leaves the mask as it was
RemovedFrom_KeepsMask(r, pools, masks, e, i) ==
    IF r.err # "ok" THEN [pools |-> Set0(pools, i, r.p), masks |-> masks, err |-> r.err]
    ELSE [pools |-> Set0(pools, i, r.p), masks |-> masks, err |-> "ok"]

RemovedFrom(r, pools, masks, e, i) ==
    IF r.err # "ok" THEN [pools |-> Set0(pools, i, r.p), masks |-> masks, err |-> r.err]
    ELSE RemoveAllFrom(Set0(pools, i, r.p),
                       Set0(masks, e.index, At0(masks, e.index) \ {i}), e, i + 1)
RemoveAllFrom(pools, masks, e, i) ==
    IF i >= Len(pools) THEN [pools |-> pools, masks |-> masks, err |-> "ok"]
    ELSE IF i \in At0(masks, e.index)
    THEN RemovedFrom(ComponentPool_Remove(At0(pools, i), e), pools, masks, e, i)
    ELSE RemoveAllFrom(pools, masks, e, i + 1)

RemoveAll(pools, masks, e) == RemoveAllFrom(pools, masks, e, 0)

\* -------------------------------------------------------- EntityManager
\* Entity::Id's conversion to bool
IdBool(e) == e # NullId

Valid(e) == IdBool(e) /\ e.gen = At0(entIndexToGen, e.index)

\* the identities a caller can present: every (index, generation) within the tables
KnownIds == {Id(i, g) : i \in 0..(Len(entIndexToGen) - 1), g \in 0..LifeMaxGen}
\* the identities NewEntity returned and Destroy has not ended
LiveIds == {e \in KnownIds : e.index # 0 /\ At0(indexIsAlive, e.index)
                               /\ e.gen = At0(entIndexToGen, e.index)}

Range(s) == {s[k] : k \in 1..Len(s)}

Op(op, e, T, v, err) ==
    [op |-> op, e |-> e, t |-> T, v |-> v, err |-> err, stale |-> 0, delivered |-> << >>]

\* ---------------------------------------------------------------- events
Events == {"EntityDestruction", "X"}     \* EntityDestruction and an event type of the client

\* a callback, by what its body does when it runs
Observe == [do |-> "observe", h |-> 0]                 \* reads the entity it receives
UnsubscribeCb(h) == [do |-> "unsubscribe", h |-> h]    \* calls Unsubscribe on the client's h-th Subscription
DestroyCb == [do |-> "destroy", h |-> 0]               \* calls Destroy on the entity it receives
Late == [do |-> "observe", h |-> 1]                    \* reads; only callbacks subscribe it
SubscribeCb == [do |-> "subscribe", h |-> 0]           \* calls Subscribe<X>(Late) while the client has room for the Subscription
SubscribeEntityCb == [do |-> "subscribeEntity", h |-> 0]   \* the same with Subscribe<X>(Late, the entity it receives)

\* what a std::list<...> * points to: a list of one of the three registries
ListRef(reg, e, ev) == [reg |-> reg, e |-> e, ev |-> ev]
NullList == ListRef("nullptr", NullId, "-")
\* list.end()
END == 0

\* the manager's state as a value, for the calls that run inside another call
World ==
    [entIndexToGen |-> entIndexToGen,
     indexIsAlive |-> indexIsAlive,
     freeEntityIndexes |-> freeEntityIndexes,
     entCompMasks |-> entCompMasks,
     componentPools |-> componentPools,
     eventSignals |-> eventSignals,
     entityEventSignals |-> entityEventSignals,
     nonEntityEventSignals |-> nonEntityEventSignals,
     subscriptions |-> subscriptions,
     err |-> "ok",
     delivered |-> << >>]

\* whether the list l points to exists
SignalExists(w, l) ==
    CASE l.reg = "eventSignals" -> l.ev \in DOMAIN w.eventSignals
      [] l.reg = "nonEntityEventSignals" -> l.ev \in DOMAIN w.nonEntityEventSignals
      [] l.reg = "entityEventSignals" ->
             /\ l.e \in DOMAIN w.entityEventSignals
             /\ l.ev \in DOMAIN w.entityEventSignals[l.e]
      [] OTHER -> FALSE

\* the list l points to
Signal(w, l) ==
    CASE l.reg = "eventSignals" -> w.eventSignals[l.ev]
      [] l.reg = "nonEntityEventSignals" -> w.nonEntityEventSignals[l.ev]
      [] OTHER -> w.entityEventSignals[l.e][l.ev]

\* the state in which the list l points to is lst
WithSignal(w, l, lst) ==
    CASE l.reg = "eventSignals" -> [w EXCEPT !.eventSignals[l.ev] = lst]
      [] l.reg = "nonEntityEventSignals" -> [w EXCEPT !.nonEntityEventSignals[l.ev] = lst]
      [] OTHER -> [w EXCEPT !.entityEventSignals[l.e][l.ev] = lst]

Nids(lst) == {lst[k].nid : k \in 1..Len(lst)}

\* whether the iterator c into the list l points to still refers to a node of that list
Connected(w, l, c) == SignalExists(w, l) /\ c \in Nids(Signal(w, l))

\* what the build does where the code's behaviour is undefined: it stops, or goes on
UB == {"crash", "nothing"}

\* a Destroy that skips a generation
Generation_Skipped(gens, e) == Set0(gens, e.index, At0(gens, e.index) + 2)

\* a Destroy that leaves the generation as it is
Generation_Kept(gens, e) == gens

\* EntityManager::Destroy, entIndexToGen.at(e.Index())++
Generation_Incremented(gens, e) == Set0(gens, e.index, At0(gens, e.index) + 1)

\* EntityManager::Valid in the state w
ValidIn(w, e) == IdBool(e) /\ e.gen = At0(w.entIndexToGen, e.index)

\* what a callback that only reads sees of the entity e it receives in the state w
Observed(w, e, node) ==
    [connection |-> node.nid,
     valid |-> ValidIn(w, e),
     alive |-> At0(w.indexIsAlive, e.index),
     mask |-> At0(w.entCompMasks, e.index),
     readable |-> {i \in At0(w.entCompMasks, e.index) :
                      ComponentPool_Get(At0(w.componentPools, i), e).err = "ok"},
     lists |-> IF e \in DOMAIN w.entityEventSignals
               THEN DOMAIN w.entityEventSignals[e] ELSE {}]

\* EntityManager::Emit(e, EntityDestruction()): the callbacks it runs, in order
Deliveries(w, e) ==
    (IF "EntityDestruction" \in DOMAIN w.eventSignals
     THEN w.eventSignals["EntityDestruction"] ELSE << >>)
    \o (IF SignalExists(w, ListRef("entityEventSignals", e, "EntityDestruction"))
        THEN w.entityEventSignals[e]["EntityDestruction"] ELSE << >>)

\* Destroy, its Emit: the subscribers to EntityDestruction, which only read, run
Emitted(w, e) ==
    [w EXCEPT !.delivered =
         @ \o [k \in 1..Len(Deliveries(w, e)) |-> Observed(w, e, Deliveries(w, e)[k])]]

\* a Destroy that leaves the lists of the entity where they are
Detached_KeepsLists(w, e) == w

\* Destroy, then: the lists of the entity are cleared and erased
Detached(w, e) == [w EXCEPT !.entityEventSignals = MapDel(@, e)]

\* Destroy, then: RemoveAllComponents(e), r what ComponentManager::RemoveAll made
Removed(w, r) ==
    [w EXCEPT !.componentPools = r.pools, !.entCompMasks = r.masks, !.err = r.err]

RemovedAll(w, e) == Removed(w, RemoveAll(w.componentPools, w.entCompMasks, e))

\* a Destroy that puts the index at the front of the free-list
Freed_PushesFront(w, e) ==
    IF w.err # "ok" THEN w
    ELSE [w EXCEPT !.entIndexToGen = Generation_Incremented(@, e),
                   !.freeEntityIndexes = <<e.index>> \o @,
                   !.indexIsAlive = Set0(@, e.index, FALSE)]

\* Destroy, its last three lines, which an error before them skips
Freed(w, e) ==
    IF w.err # "ok" THEN w
    ELSE [w EXCEPT !.entIndexToGen = Generation_Incremented(@, e),
                   !.freeEntityIndexes = Append(@, e.index),
                   !.indexIsAlive = Set0(@, e.index, FALSE)]

\* a Destroy that notifies its subscribers when the entity is already gone
Destroyed_EmitsLast(w, e) == Emitted(Freed(RemovedAll(Detached(w, e), e), e), e)

\* EntityManager::Destroy of a valid identity, from the Emit on
Destroyed(w, e) == Freed(RemovedAll(Detached(Emitted(w, e), e), e), e)

\* EntityManager::Destroy in the state w
DestroyIn(w, e) ==
    IF ~ValidIn(w, e) THEN [w EXCEPT !.err = "invalid_argument"]
    ELSE IF ~At0(w.indexIsAlive, e.index) THEN [w EXCEPT !.err = "assertion"]
    ELSE Destroyed(w, e)

\* EntityManager::DestroyAll, from index i on; an error ends it
RECURSIVE DestroyAllFrom(_, _)
\* a DestroyAll that looks at index i only
DestroyAllFrom_OneIndex(w, i) ==
    IF i < Len(w.indexIsAlive) /\ At0(w.indexIsAlive, i)
    THEN DestroyIn(w, Id(i, At0(w.entIndexToGen, i)))
    ELSE w

DestroyAllFrom(w, i) ==
    IF i >= Len(w.indexIsAlive) \/ w.err # "ok" THEN w
    ELSE IF At0(w.indexIsAlive, i)
    THEN DestroyAllFrom(DestroyIn(w, Id(i, At0(w.entIndexToGen, i))), i + 1)
    ELSE DestroyAllFrom(w, i + 1)

\* Subscription's three constructors
Subscription(list, c, entityCallback) ==
    [manager |-> "this",
     entityConnectionList |-> IF entityCallback THEN list ELSE NullList,
     entityConnection |-> IF entityCallback THEN c ELSE END,
     connectionList |-> IF entityCallback THEN NullList ELSE list,
     connection |-> IF entityCallback THEN END ELSE c]

DefaultSubscription ==
    [manager |-> "nullptr",
     entityConnectionList |-> NullList, entityConnection |-> END,
     connectionList |-> NullList, connection |-> END]

\* Subscription::IsActive
IsActive(s) == s.entityConnectionList # NullList \/ s.connectionList # NullList

\* the iterator signal.insert(signal.end(), ...) returns: a node no list had before
FreshConnection ==
    1 + Cardinality(({subscriptions[k].entityConnection : k \in DOMAIN subscriptions}
                     \cup {subscriptions[k].connection : k \in DOMAIN subscriptions})
                    \ {END})

\* list->erase(c) through the pointer l: the node leaves its list; through a pointer to
\* a list that is gone, or with an iterator to a node already erased, it is undefined
Erased(w, l, c, ub) ==
    IF Connected(w, l, c) THEN WithSignal(w, l, ListErase(Signal(w, l), c))
    ELSE IF ub = "crash" THEN [w EXCEPT !.err = "undefined"]
    ELSE w

\* Subscription::Unsubscribe on the client's h-th Subscription (one it does not hold
\* yet is default-constructed)
Unsubscribed(w, h, ub) ==
    IF h \notin DOMAIN w.subscriptions THEN w
    ELSE IF w.subscriptions[h].manager = "nullptr" THEN w
    ELSE IF w.subscriptions[h].entityConnectionList # NullList
    THEN [Erased(w, w.subscriptions[h].entityConnectionList,
                 w.subscriptions[h].entityConnection, ub)
             EXCEPT !.subscriptions[h].entityConnectionList = NullList]
    ELSE IF w.subscriptions[h].connectionList # NullList
    THEN [Erased(w, w.subscriptions[h].connectionList, w.subscriptions[h].connection, ub)
             EXCEPT !.subscriptions[h].connectionList = NullList]
    ELSE w

\* signal.insert(signal.end(), ...) in the state w: the iterator to the new node
FreshIn(w) ==
    1 + Cardinality(({w.subscriptions[k].entityConnection : k \in DOMAIN w.subscriptions}
                     \cup {w.subscriptions[k].connection : k \in DOMAIN w.subscriptions})
                    \ {END})

\* the list l points to in the state w, as operator[] of the registry finds or makes it
SignalOrNew(w, l) == IF SignalExists(w, l) THEN Signal(w, l) ELSE << >>

\* EntityManager::Subscribe of an entity callback in the state w: the callback joins the
\* end of the list l points to and the client keeps the Subscription
SubscribedIn(w, l, callback) ==
    LET lst == Append(SignalOrNew(w, l), [nid |-> FreshIn(w), cb |-> callback])
        handle == Subscription(l, FreshIn(w), TRUE)
    IN IF l.reg = "eventSignals"
       THEN [w EXCEPT !.eventSignals = MapPut(@, l.ev, lst),
                      !.subscriptions = Append(@, handle)]
       ELSE [w EXCEPT !.entityEventSignals =
                          MapPut(@, l.e, MapPut(IF l.e \in DOMAIN @ THEN @[l.e] ELSE << >>,
                                                l.ev, lst)),
                      !.subscriptions = Append(@, handle)]

\* the callback cb runs for the entity e
Called(w, cb, e, ub) ==
    CASE cb.do = "unsubscribe" -> Unsubscribed(w, cb.h, ub)
      [] cb.do = "destroy" -> DestroyIn(w, e)
      [] cb.do = "subscribe" ->
             IF Len(w.subscriptions) < EvMaxHandles
             THEN SubscribedIn(w, ListRef("eventSignals", NullId, "X"), Late) ELSE w
      [] cb.do = "subscribeEntity" ->
             IF Len(w.subscriptions) < EvMaxHandles
             THEN SubscribedIn(w, ListRef("entityEventSignals", e, "X"), Late) ELSE w
      [] OTHER -> w

\* emit: the Emit that is running
\*   active      the loop over a list is running (a callback has returned, or none ran yet)
\*   event, e    what is emitted, and for which entity (NullId: Emit(event))
\*   signal      the list the loop runs over; connection: its cursor
\*   called      the nodes whose callbacks ran, in order
\*   mutated     a callback that ran did more than read
NoEmit ==
    [active |-> FALSE, event |-> "-", e |-> NullId, signal |-> NullList,
     connection |-> END, called |-> << >>, mutated |-> FALSE]

Dispatching == emit.active

\* a begin() that starts at the last callback
Begin_AtLast(lst) == IF lst = << >> THEN END ELSE lst[Len(lst)].nid

\* signal.begin()
Begin(lst) == IF lst = << >> THEN END ELSE lst[1].nid

\* connection++ from node c of lst
After(lst, c) ==
    LET k == CHOOSE j \in 1..Len(lst) : lst[j].nid = c IN
    IF k = Len(lst) THEN END ELSE lst[k + 1].nid

\* Emit(e, event), its second half: the list of the entity for the event, if it has one
EntityPart(w, em) ==
    IF SignalExists(w, ListRef("entityEventSignals", em.e, em.event))
    THEN [em EXCEPT !.signal = ListRef("entityEventSignals", em.e, em.event),
                    !.connection = Begin(w.entityEventSignals[em.e][em.event])]
    ELSE [em EXCEPT !.active = FALSE]

\* the manager's state becomes w
Becomes(w) ==
    /\ entIndexToGen' = w.entIndexToGen
    /\ indexIsAlive' = w.indexIsAlive
    /\ freeEntityIndexes' = w.freeEntityIndexes
    /\ entCompMasks' = w.entCompMasks
    /\ componentPools' = w.componentPools
    /\ eventSignals' = w.eventSignals
    /\ entityEventSignals' = w.entityEventSignals
    /\ nonEntityEventSignals' = w.nonEntityEventSignals
    /\ subscriptions' = w.subscriptions
    /\ crashed' = (w.err \in {"assertion", "undefined", "terminate"})

\* ------------------------------------------------------------ traversal
\* iter: the EntityCollection a range-for loop runs over, its Iterator, and what
\* the loop has seen (visited: the entities the loop body received, in order).
\*   phase     "idle" | "running" (the loop body may run) | "done" (the collection is gone)
\*   keyed     the collection walks a bucket (indexes != nullptr)
\*   empty     the collection has no pool (pool == nullptr)
\*   pool      index of the pool the IterateLock holds
\*   compMask, lastCompIndex, compIndex, key, endIter, it: the fields of the source
\*   start     the entities that satisfied compMask when the traversal started
\*   lost      entities of start that stopped satisfying compMask before they were visited
\*   created   the identities NewEntity returned during the traversal
\*   added     a Set ran in the loop body; mutated: any operation changed the state in it
Idle ==
    [phase |-> "idle", keyed |-> FALSE, empty |-> FALSE, pool |-> 0, compMask |-> {},
     lastCompIndex |-> 0, compIndex |-> 0, key |-> 0, endIter |-> 0, it |-> 0,
     visited |-> << >>, start |-> {}, lost |-> {}, created |-> {},
     added |-> FALSE, mutated |-> FALSE, broke |-> FALSE]

Running == iter.phase = "running"

\* a test of the mask that every entity passes
Satisfies_Anything(masks, e, compMask) == TRUE

Satisfies(masks, e, compMask) == compMask \subseteq At0(masks, e.index)

\* what an operation of the loop body (or outside any loop) leaves in iter
BodyStep(newIds, isSet, changed) ==
    iter' = IF Running
            THEN [iter EXCEPT
                    !.created = @ \cup newIds,
                    !.added = @ \/ isSet,
                    !.mutated = @ \/ changed,
                    !.lost = @ \cup {x \in iter.start \ Range(iter.visited) :
                                        \/ ~At0(indexIsAlive', x.index)
                                        \/ At0(entIndexToGen', x.index) # x.gen
                                        \/ ~Satisfies(entCompMasks', x, iter.compMask)}]
            ELSE Idle

Init ==
    /\ entIndexToGen = <<0>>
    /\ indexIsAlive = <<FALSE>>
    /\ freeEntityIndexes = << >>
    /\ entCompMasks = << {} >>
    /\ compTypeToCompIndex = << >>
    /\ componentPools = << >>
    /\ eventSignals = << >>
    /\ entityEventSignals = << >>
    /\ nonEntityEventSignals = << >>
    /\ subscriptions = << >>
    /\ emit = NoEmit
    /\ iter = Idle
    /\ last = Op("EntityManager", NullId, "-", 0, "ok")
    /\ crashed = FALSE

\* a NewEntity that reuses an index as soon as the free-list holds one
NewEntity_RecyclesAtOnce(maxIndex) ==
    /\ ~crashed
    /\ IF freeEntityIndexes # << >>
       THEN /\ freeEntityIndexes' = Tail(freeEntityIndexes)
            /\ indexIsAlive' = Set0(indexIsAlive, Head(freeEntityIndexes), TRUE)
            /\ last' = Op("NewEntity", Id(Head(freeEntityIndexes),
                                         At0(entIndexToGen, Head(freeEntityIndexes))),
                          "-", 0, "ok")
            /\ UNCHANGED <<entIndexToGen, entCompMasks>>
       ELSE /\ Len(entIndexToGen) <= maxIndex
            /\ entIndexToGen' = Append(entIndexToGen, 0)
            /\ indexIsAlive' = Append(indexIsAlive, TRUE)
            /\ entCompMasks' = Append(entCompMasks, {})
            /\ last' = Op("NewEntity", Id(Len(entIndexToGen), 0), "-", 0, "ok")
            /\ UNCHANGED freeEntityIndexes
    /\ UNCHANGED <<compTypeToCompIndex, componentPools, evVars, crashed>>
    /\ BodyStep({last'.e}, FALSE, TRUE)

\* EntityManager::NewEntity
NewEntity(maxIndex) ==
    /\ ~crashed
    /\ IF Len(freeEntityIndexes) >= ECS_ENTITY_RECYCLE_COUNT
       THEN LET i == Head(freeEntityIndexes) IN
            /\ freeEntityIndexes' = Tail(freeEntityIndexes)
            /\ IF At0(entCompMasks, i) # {}
               THEN /\ crashed' = TRUE
                    /\ last' = Op("NewEntity", Id(i, At0(entIndexToGen, i)), "-", 0, "assertion")
                    /\ UNCHANGED indexIsAlive
               ELSE /\ indexIsAlive' = Set0(indexIsAlive, i, TRUE)
                    /\ last' = Op("NewEntity", Id(i, At0(entIndexToGen, i)), "-", 0, "ok")
                    /\ UNCHANGED crashed
            /\ UNCHANGED <<entIndexToGen, entCompMasks>>
       ELSE /\ Len(entIndexToGen) <= maxIndex
            /\ entIndexToGen' = Append(entIndexToGen, 0)
            /\ indexIsAlive' = Append(indexIsAlive, TRUE)
            /\ entCompMasks' = Append(entCompMasks, {})
            /\ last' = Op("NewEntity", Id(Len(entIndexToGen), 0), "-", 0, "ok")
            /\ UNCHANGED <<freeEntityIndexes, crashed>>
    /\ UNCHANGED <<compTypeToCompIndex, componentPools, evVars>>
    /\ BodyStep(IF last'.err = "ok" THEN {last'.e} ELSE {}, FALSE, TRUE)

\* registration of T, as ComponentManager::Set / SetKey do it on first use
AutoRegistered(T, isKeyed) ==
    IF Registered(T)
    THEN [index |-> compTypeToCompIndex, pools |-> componentPools]
    ELSE [index |-> MapPut(compTypeToCompIndex, T, Len(componentPools)),
          pools |-> Append(componentPools, ComponentPool(isKeyed))]

\* what a Remove<T>(e) that ran just before left behind, for a Set that follows it
StaleValue(e, T) ==
    IF last.op = "Remove" /\ last.err = "ok" /\ last.e = e /\ last.t = T THEN last.v ELSE 0

\* ComponentManager::RegisterComponentType / RegisterKeyedComponentType
RegisterComponentType(T) ==
    /\ ~crashed
    /\ IF Registered(T)
       THEN /\ last' = Op("Register", NullId, T, 0, "runtime_error")
            /\ UNCHANGED <<compTypeToCompIndex, componentPools>>
       ELSE /\ compTypeToCompIndex' = MapPut(compTypeToCompIndex, T, Len(componentPools))
            /\ componentPools' = Append(componentPools, ComponentPool(T \in KeyedTypes))
            /\ last' = Op("Register", NullId, T, 0, "ok")
    /\ UNCHANGED <<emVars, evVars, entCompMasks, crashed>>
    /\ BodyStep({}, FALSE, last'.err = "ok")

\* ComponentManager::Set (viaKey = FALSE) and ComponentManager::SetKey (viaKey = TRUE)
Set(e, T, v, viaKey, maxPool) ==
    /\ ~crashed
    /\ e \in LiveIds
    /\ viaKey => T \in KeyedTypes
    /\ (T \in KeyedTypes /\ ~viaKey) => Registered(T)
    /\ LET reg == AutoRegistered(T, viaKey)
           compIndex == reg.index[T]
           pool == At0(reg.pools, compIndex)
       IN /\ Len(pool.components) < maxPool
          /\ compTypeToCompIndex' = reg.index
          /\ IF compIndex >= MAX_COMPONENTS
             THEN \* compMask.set(compIndex) throws: the bitset has no such bit
                  /\ componentPools' = reg.pools
                  /\ UNCHANGED entCompMasks
                  /\ last' = Op(IF viaKey THEN "SetKey" ELSE "Set", e, T, v, "out_of_range")
             ELSE /\ entCompMasks' = Set0(entCompMasks, e.index, MaskOf(e) \cup {compIndex})
                  /\ componentPools' =
                         Set0(reg.pools, compIndex,
                              IF viaKey THEN KeyedComponentPool_Set(pool, e, v)
                              ELSE ComponentPool_Set(pool, e, v))
                  /\ last' = [Op(IF viaKey THEN "SetKey" ELSE "Set", e, T, v, "ok")
                                 EXCEPT !.stale = StaleValue(e, T)]
    /\ UNCHANGED <<emVars, evVars, crashed>>
    /\ BodyStep({}, TRUE, TRUE)

\* a Remove that takes a missing component for removed
Remove_IgnoresMask(e, T) ==
    /\ ~crashed
    /\ e \in LiveIds
    /\ Registered(T)
    /\ last' = Op("Remove", e, T, 0, "ok")
    /\ UNCHANGED <<emVars, cmVars, evVars, crashed>>
    /\ BodyStep({}, FALSE, FALSE)

\* ComponentManager::Remove
Remove(e, T) ==
    /\ ~crashed
    /\ e \in LiveIds
    /\ IF ~Registered(T)
       THEN /\ last' = Op("Remove", e, T, 0, "UnrecognizedComponentType")
            /\ UNCHANGED <<entCompMasks, componentPools, crashed>>
       ELSE LET compIndex == compTypeToCompIndex[T] IN
            IF compIndex \notin MaskOf(e)
            THEN /\ last' = Op("Remove", e, T, 0, "runtime_error")
                 /\ UNCHANGED <<entCompMasks, componentPools, crashed>>
            ELSE LET r == ComponentPool_Remove(PoolOf(T), e) IN
                 /\ componentPools' = Set0(componentPools, compIndex, r.p)
                 /\ entCompMasks' = IF r.err = "ok"
                                    THEN Set0(entCompMasks, e.index, MaskOf(e) \ {compIndex})
                                    ELSE entCompMasks
                 /\ crashed' = (r.err = "assertion")
                 /\ last' = Op("Remove", e, T, Get(T, e).value, r.err)
    /\ UNCHANGED <<emVars, evVars, compTypeToCompIndex>>
    /\ BodyStep({}, FALSE, componentPools' # componentPools)

\* EntityManager::RemoveAllComponents
RemoveAllComponents(e) ==
    /\ ~crashed
    /\ e \in LiveIds
    /\ LET r == RemoveAll(componentPools, entCompMasks, e) IN
       /\ componentPools' = r.pools
       /\ entCompMasks' = r.masks
       /\ crashed' = (r.err = "assertion")
       /\ last' = Op("RemoveAllComponents", e, "-", 0, r.err)
    /\ UNCHANGED <<emVars, evVars, compTypeToCompIndex>>
    /\ BodyStep({}, FALSE, componentPools' # componentPools)

\* a call of the client returns (or throws w.err) and leaves the manager in the state w
Returned(w, op, e, v) ==
    /\ Becomes(w)
    /\ last' = [Op(op, e, "-", v, w.err) EXCEPT !.delivered = w.delivered]

\* EntityManager::Destroy
Destroy(e, maxGen) ==
    /\ ~crashed
    /\ e \in KnownIds
    /\ (Valid(e) /\ At0(indexIsAlive, e.index)) => e.gen < maxGen
    /\ Returned(DestroyIn(World, e), "Destroy", e, 0)
    /\ UNCHANGED <<compTypeToCompIndex, emit>>
    /\ BodyStep({}, FALSE, last'.err # "invalid_argument")

\* EntityManager::DestroyAll
DestroyAll(maxGen) ==
    /\ ~crashed
    /\ \A e \in LiveIds : e.gen < maxGen
    /\ Returned(DestroyAllFrom(World, 1), "DestroyAll", NullId, 0)
    /\ UNCHANGED <<compTypeToCompIndex, emit>>
    /\ BodyStep({}, FALSE, LiveIds # {})

\* EntityManager::Subscribe<Event>(std::function<void(Entity, const Event &)>)
Subscribe(Event, callback, maxSubs) ==
    /\ ~crashed
    /\ LET signal == IF Event \in DOMAIN eventSignals THEN eventSignals[Event] ELSE << >> IN
       /\ Len(signal) < maxSubs
       /\ eventSignals' =
              MapPut(eventSignals, Event,
                     Append(signal, [nid |-> FreshConnection, cb |-> callback]))
    /\ subscriptions' =
           Append(subscriptions,
                  Subscription(ListRef("eventSignals", NullId, Event), FreshConnection, TRUE))
    /\ last' = Op("Subscribe", NullId, "-", FreshConnection, "ok")
    /\ UNCHANGED <<emVars, cmVars, entityEventSignals, nonEntityEventSignals, emit, crashed>>
    /\ BodyStep({}, FALSE, TRUE)

\* EntityManager::Subscribe<Event>(std::function<void(const Event &)>)
SubscribeNonEntity(Event, callback, maxSubs) ==
    /\ ~crashed
    /\ LET signal == IF Event \in DOMAIN nonEntityEventSignals
                     THEN nonEntityEventSignals[Event] ELSE << >> IN
       /\ Len(signal) < maxSubs
       /\ nonEntityEventSignals' =
              MapPut(nonEntityEventSignals, Event,
                     Append(signal, [nid |-> FreshConnection, cb |-> callback]))
    /\ subscriptions' =
           Append(subscriptions,
                  Subscription(ListRef("nonEntityEventSignals", NullId, Event),
                               FreshConnection, FALSE))
    /\ last' = Op("SubscribeNonEntity", NullId, "-", FreshConnection, "ok")
    /\ UNCHANGED <<emVars, cmVars, eventSignals, entityEventSignals, emit, crashed>>
    /\ BodyStep({}, FALSE, TRUE)

\* EntityManager::Subscribe<Event>(callback, entity)
SubscribeEntity(Event, callback, e, maxSubs) ==
    /\ ~crashed
    /\ e \in KnownIds
    /\ LET signals == IF e \in DOMAIN entityEventSignals THEN entityEventSignals[e] ELSE << >>
           signal == IF Event \in DOMAIN signals THEN signals[Event] ELSE << >>
       IN /\ Len(signal) < maxSubs
          /\ entityEventSignals' =
                 MapPut(entityEventSignals, e,
                        MapPut(signals, Event,
                               Append(signal, [nid |-> FreshConnection, cb |-> callback])))
    /\ subscriptions' =
           Append(subscriptions,
                  Subscription(ListRef("entityEventSignals", e, Event), FreshConnection, TRUE))
    /\ last' = Op("SubscribeEntity", e, "-", FreshConnection, "ok")
    /\ UNCHANGED <<emVars, cmVars, eventSignals, nonEntityEventSignals, emit, crashed>>
    /\ BodyStep({}, FALSE, TRUE)

\* Subscription::Unsubscribe on the client's h-th Subscription
Unsubscribe(h) ==
    /\ ~crashed
    /\ h \in DOMAIN subscriptions
    /\ \E ub \in UB : Returned(Unsubscribed(World, h, ub), "Unsubscribe", NullId, h)
    /\ UNCHANGED <<compTypeToCompIndex, emit>>
    /\ BodyStep({}, FALSE, TRUE)

\* Subscription(const Subscription &): the client copies its h-th Subscription
CopySubscription(h, maxHandles) ==
    /\ ~crashed
    /\ h \in DOMAIN subscriptions
    /\ Len(subscriptions) < maxHandles
    /\ subscriptions' = Append(subscriptions, subscriptions[h])
    /\ last' = Op("CopySubscription", NullId, "-", h, "ok")
    /\ UNCHANGED <<emVars, cmVars, eventSignals, entityEventSignals, nonEntityEventSignals,
                   emit, crashed>>
    /\ BodyStep({}, FALSE, TRUE)

\* Subscription(): the client default-constructs a Subscription
NewSubscription(maxHandles) ==
    /\ ~crashed
    /\ Len(subscriptions) < maxHandles
    /\ subscriptions' = Append(subscriptions, DefaultSubscription)
    /\ last' = Op("Subscription", NullId, "-", 0, "ok")
    /\ UNCHANGED <<emVars, cmVars, eventSignals, entityEventSignals, nonEntityEventSignals,
                   emit, crashed>>
    /\ BodyStep({}, FALSE, TRUE)

\* EntityManager::Emit(e, event), up to its first loop
Emit(e, Event) ==
    /\ ~crashed
    /\ ~Dispatching
    /\ emit' = IF Event \in DOMAIN eventSignals
               THEN [NoEmit EXCEPT !.active = TRUE, !.event = Event, !.e = e,
                                   !.signal = ListRef("eventSignals", NullId, Event),
                                   !.connection = Begin(eventSignals[Event])]
               ELSE EntityPart(World, [NoEmit EXCEPT !.active = TRUE, !.event = Event, !.e = e])
    /\ last' = Op("Emit", e, "-", 0, "ok")
    /\ UNCHANGED <<emVars, cmVars, eventSignals, entityEventSignals, nonEntityEventSignals,
                   subscriptions, crashed, iter>>

\* EntityManager::Emit(event), up to its loop
EmitNonEntity(Event) ==
    /\ ~crashed
    /\ ~Dispatching
    /\ emit' = IF Event \in DOMAIN nonEntityEventSignals
               THEN [NoEmit EXCEPT !.active = TRUE, !.event = Event,
                                   !.signal = ListRef("nonEntityEventSignals", NullId, Event),
                                   !.connection = Begin(nonEntityEventSignals[Event])]
               ELSE [NoEmit EXCEPT !.event = Event]
    /\ last' = Op("EmitNonEntity", NullId, "-", 0, "ok")
    /\ UNCHANGED <<emVars, cmVars, eventSignals, entityEventSignals, nonEntityEventSignals,
                   subscriptions, crashed, iter>>

\* the body of Emit's loop ran for node: the cursor moved on, then the callback ran and
\* left the state w; what a callback throws leaves Emit
Invoked(w, node) ==
    /\ Becomes(w)
    /\ emit' = [emit EXCEPT !.connection = After(Signal(World, emit.signal), node.nid),
                            !.called = Append(@, node.nid),
                            !.mutated = @ \/ node.cb.do # "observe",
                            !.active = (w.err = "ok")]
    /\ last' = [Op("Dispatch", emit.e, "-", node.nid, w.err) EXCEPT !.delivered = w.delivered]

\* the node of lst the iterator c refers to
NodeAt(lst, c) == lst[CHOOSE k \in 1..Len(lst) : lst[k].nid = c]

\* Emit, one turn of its loop: connection != signal.end(), and if so the loop's body.
\* A cursor into an erased node or into a list that is gone makes the test undefined.
Dispatch ==
    /\ ~crashed
    /\ Dispatching
    /\ IF \/ ~SignalExists(World, emit.signal)
          \/ emit.connection # END /\ ~Connected(World, emit.signal, emit.connection)
       THEN /\ \E ub \in UB : crashed' = (ub = "crash")
            /\ emit' = [emit EXCEPT !.active = FALSE]
            /\ last' = Op("Dispatch", emit.e, "-", 0, "undefined")
            /\ UNCHANGED <<emVars, entCompMasks, componentPools, eventSignals,
                           entityEventSignals, nonEntityEventSignals, subscriptions>>
       ELSE IF emit.connection = END
       THEN /\ emit' = IF emit.signal.reg = "eventSignals"
                       THEN EntityPart(World, emit)
                       ELSE [emit EXCEPT !.active = FALSE]
            /\ last' = Op("Dispatch", emit.e, "-", 0, "ok")
            /\ UNCHANGED <<emVars, entCompMasks, componentPools, eventSignals,
                           entityEventSignals, nonEntityEventSignals, subscriptions, crashed>>
       ELSE \E ub \in UB :
                Invoked(Called(World, NodeAt(Signal(World, emit.signal), emit.connection).cb,
                               emit.e, ub),
                        NodeAt(Signal(World, emit.signal), emit.connection))
    /\ UNCHANGED <<compTypeToCompIndex, iter>>

\* EntityManager::EntitiesWith(ComponentMask): the pool of smallest Size, the first on a tie
DrivingPool(compMask) ==
    CHOOSE i \in compMask :
        \A j \in compMask :
            \/ Size(At0(componentPools, i)) < Size(At0(componentPools, j))
            \/ Size(At0(componentPools, i)) = Size(At0(componentPools, j)) /\ i <= j

\* ComponentPoolEntityCollection(pool): the extent of the pool when the traversal starts
LastCompIndex(p) == Size(p) - 1

\* an end() that follows the pool as it grows
End_PoolSize(p, it) == Size(p)

\* ComponentPoolEntityCollection::end() of a collection over a pool's records
End(p, it) == it.lastCompIndex + 1

\* EntityCollection::Iterator, constructor and operator++, over a pool's records:
\* the first position from c on, before end, whose owner's mask satisfies compMask
RECURSIVE NextMatch(_, _, _, _, _)
NextMatch(p, masks, compMask, c, end) ==
    IF c >= end THEN end
    ELSE IF Satisfies(masks, entityAt(p, c), compMask) THEN c
    ELSE NextMatch(p, masks, compMask, c + 1, end)

\* ComponentPoolEntityCollection::Iterator::operator* on node k of a bucket
KeyedDeref(p, node) ==
    IF node.idx = INVALID_COMP_INDEX THEN NullId ELSE entityAt(p, node.idx)

\* the same over a bucket: the first node from k on, before the sentinel, whose
\* entity satisfies compMask (0: a node holds no position of the pool)
RECURSIVE NextMatchKeyed(_, _, _, _, _, _)
NextMatchKeyed(p, masks, compMask, lst, k, endIter) ==
    IF lst[k].nid = endIter THEN k
    ELSE IF lst[k].idx # INVALID_COMP_INDEX /\ lst[k].idx >= Size(p) THEN 0
    ELSE IF Satisfies(masks, KeyedDeref(p, lst[k]), compMask) THEN k
    ELSE NextMatchKeyed(p, masks, compMask, lst, k + 1, endIter)

NodePos(lst, nid) == CHOOSE k \in 1..Len(lst) : lst[k].nid = nid

\* ~ComponentPoolEntityCollection, after the lock is gone: indexes->erase(endIter)
Released(r, pools, it) ==
    [pools |-> Set0(pools, it.pool,
                    IF r.err = "ok" /\ it.keyed /\ ~it.empty
                    THEN [r.p EXCEPT !.compKeyToCompIndex[it.key] = ListErase(@, it.endIter)]
                    ELSE r.p),
     err |-> r.err]

\* ~EntityCollection: the IterateLock is released (the deferred removals run), then
\* the ComponentPoolEntityCollection takes its sentinel out of the bucket
Release(pools, it) == Released(toggleSoftRemove(At0(pools, it.pool), FALSE), pools, it)

\* the state a destroyed collection leaves; an error that leaves a destructor ends the program
Ended(r, it, op, broke) ==
    /\ componentPools' = r.pools
    /\ crashed' = (r.err # "ok")
    /\ iter' = [it EXCEPT !.phase = "done", !.broke = broke]
    /\ last' = Op(op, NullId, "-", 0, IF r.err = "ok" THEN "ok" ELSE "terminate")

\* the loop ends (its iterator reached end(), or the body left it): the collection dies
EndLoop(pools, it, op, broke) == Ended(Release(pools, it), it, op, broke)

\* the loop body receives entity e
Yield(pools, it, op, e) ==
    /\ componentPools' = pools
    /\ crashed' = FALSE
    /\ iter' = [it EXCEPT !.phase = "running", !.visited = Append(@, e)]
    /\ last' = Op(op, e, "-", 0, "ok")

\* an Assert of the iterator fails
Failed(pools, it, op) ==
    /\ componentPools' = pools
    /\ crashed' = TRUE
    /\ iter' = it
    /\ last' = Op(op, NullId, "-", 0, "assertion")

\* it != end() over a pool's records, the iterator at position c
Reached(pools, p, it, c, op) ==
    IF c = End(p, it) THEN EndLoop(pools, [it EXCEPT !.compIndex = c], op, FALSE)
    ELSE Yield(pools, [it EXCEPT !.compIndex = c], op, entityAt(p, c))

\* it != end() over a bucket, the iterator at node k (0: an Assert of operator* failed)
ReachedKeyed(pools, p, it, lst, k, op) ==
    IF k = 0 THEN Failed(pools, it, op)
    ELSE IF lst[k].nid = it.endIter THEN EndLoop(pools, [it EXCEPT !.it = lst[k].nid], op, FALSE)
    ELSE Yield(pools, [it EXCEPT !.it = lst[k].nid], op, KeyedDeref(p, lst[k]))

\* EntityCollection::begin() over the locked pool p
Begun(pools, p, it, op) ==
    Reached(pools, p, it, NextMatch(p, entCompMasks, it.compMask, 0, End(p, it)), op)

\* the EntityCollection over the pool the lock lk holds
Locked(lk, d, compMask) ==
    /\ lk.err = "ok"
    /\ Begun(Set0(componentPools, d, lk.p), lk.p,
             [Idle EXCEPT !.pool = d, !.compMask = compMask,
                          !.lastCompIndex = LastCompIndex(lk.p),
                          !.start = {e \in LiveIds : Satisfies(entCompMasks, e, compMask)}],
             "EntitiesWith")

\* for (Entity ent : em.EntitiesWith(compMask)): the collection, begin() and the
\* first comparison with end()
EntitiesWith(compMask) ==
    /\ ~crashed
    /\ ~Running
    /\ compMask # {}
    /\ compMask \subseteq {compTypeToCompIndex[T] : T \in DOMAIN compTypeToCompIndex}
    /\ Locked(toggleSoftRemove(At0(componentPools, DrivingPool(compMask)), TRUE),
              DrivingPool(compMask), compMask)
    /\ UNCHANGED <<emVars, evVars, entCompMasks, compTypeToCompIndex>>

\* ComponentPoolEntityCollection(pool, indexes): the sentinel node ends the bucket
WithSentinel(p, key) ==
    IF key \in DOMAIN p.compKeyToCompIndex
    THEN [p EXCEPT !.compKeyToCompIndex[key] =
                       Append(@, [nid |-> FreshNode(@), idx |-> INVALID_COMP_INDEX])]
    ELSE p

\* KeyedComponentPool::KeyedEntities under EntityManager::EntitiesWith<T>(key), walked to
\* its end by a loop whose body changes nothing: the entities of the records in the
\* bucket of key whose mask has the bit of the pool
KeyedEntities(p, masks, bit, key) ==
    IF key \in DOMAIN p.compKeyToCompIndex
    THEN {e \in {KeyedDeref(p, p.compKeyToCompIndex[key][k]) :
                    k \in 1..Len(p.compKeyToCompIndex[key])} : Satisfies(masks, e, {bit})}
    ELSE {}

\* KeyedComponentPool::KeyedEntity under EntityManager::EntityWith<T>(key): the entity
\* at begin() of a collection over the bucket of key (its first record, or the sentinel
\* when the bucket is empty), the null id when there is no bucket
KeyedEntity(p, key) ==
    IF key \in DOMAIN p.compKeyToCompIndex
    THEN KeyedDeref(p, WithSentinel(p, key).compKeyToCompIndex[key][1])
    ELSE NullId

\* EntityCollection::begin() over the bucket lst of the locked pool p
BegunKeyed(pools, p, it, lst, op) ==
    ReachedKeyed(pools, p, [it EXCEPT !.endIter = lst[Len(lst)].nid], lst,
                 NextMatchKeyed(p, entCompMasks, it.compMask, lst, 1, lst[Len(lst)].nid), op)

\* the EntityCollection over the bucket of key in the pool the lock lk holds
LockedKeyed(lk, d, key, it) ==
    /\ lk.err = "ok"
    /\ IF key \in DOMAIN lk.p.compKeyToCompIndex
       THEN BegunKeyed(Set0(componentPools, d, lk.p), lk.p, it,
                       lk.p.compKeyToCompIndex[key], "EntitiesWithKey")
       ELSE EndLoop(Set0(componentPools, d, lk.p), [it EXCEPT !.empty = TRUE],
                    "EntitiesWithKey", FALSE)

\* for (Entity ent : em.EntitiesWith<T>(key)), T a keyed type
EntitiesWithKey(T, key) ==
    /\ ~crashed
    /\ ~Running
    /\ Registered(T)
    /\ PoolOf(T).keyed
    /\ LockedKeyed(toggleSoftRemove(WithSentinel(PoolOf(T), key), TRUE),
                   compTypeToCompIndex[T], key,
                   [Idle EXCEPT !.keyed = TRUE, !.pool = compTypeToCompIndex[T],
                                !.compMask = {compTypeToCompIndex[T]}, !.key = key,
                                !.start = {e \in LiveIds : Get(T, e) = [err |-> "ok", value |-> key]}])
    /\ UNCHANGED <<emVars, evVars, entCompMasks, compTypeToCompIndex>>

\* operator++ over a bucket: from the node after the iterator's on
AdvancedKeyed(p, lst) ==
    ReachedKeyed(componentPools, p, iter, lst,
                 NextMatchKeyed(p, entCompMasks, iter.compMask, lst,
                                NodePos(lst, iter.it) + 1, iter.endIter),
                 "Advance")

\* the loop body returns: ++it and the comparison with end()
Advance ==
    /\ ~crashed
    /\ Running
    /\ IF iter.keyed
       THEN AdvancedKeyed(At0(componentPools, iter.pool),
                          At0(componentPools, iter.pool).compKeyToCompIndex[iter.key])
       ELSE Reached(componentPools, At0(componentPools, iter.pool), iter,
                    NextMatch(At0(componentPools, iter.pool), entCompMasks, iter.compMask,
                              iter.compIndex + 1, End(At0(componentPools, iter.pool), iter)),
                    "Advance")
    /\ UNCHANGED <<emVars, evVars, entCompMasks, compTypeToCompIndex>>

\* the loop body leaves the loop (break)
Break ==
    /\ ~crashed
    /\ Running
    /\ EndLoop(componentPools, iter, "Break", TRUE)
    /\ UNCHANGED <<emVars, evVars, entCompMasks, compTypeToCompIndex>>

\* em.EntitiesWith(compMask) in the body of a loop over its driving pool: CreateIterateLock
\* runs the constructor of a second IterateLock on the pool; what it throws leaves
\* EntitiesWith before any collection exists
NestedEntitiesWith(compMask) ==
    /\ ~crashed
    /\ Running
    /\ compMask # {}
    /\ compMask \subseteq {compTypeToCompIndex[T] : T \in DOMAIN compTypeToCompIndex}
    /\ DrivingPool(compMask) = iter.pool
    /\ LET lk == toggleSoftRemove(At0(componentPools, iter.pool), TRUE) IN
       /\ componentPools' = Set0(componentPools, iter.pool, lk.p)
       /\ last' = Op("EntitiesWith", NullId, "-", 0, lk.err)
    /\ UNCHANGED <<emVars, evVars, entCompMasks, compTypeToCompIndex, iter, crashed>>

\* em.EntitiesWith<T>(key), or em.DestroyAllWith<T>(key), which starts with it, in the
\* body of a loop over the pool of T: the collection KeyedEntities(key) made takes its
\* sentinel back out of the bucket when the constructor of the second lock throws
NestedEntitiesWithKey(T, key) ==
    /\ ~crashed
    /\ Running
    /\ Registered(T)
    /\ PoolOf(T).keyed
    /\ compTypeToCompIndex[T] = iter.pool
    /\ LET lk == toggleSoftRemove(WithSentinel(PoolOf(T), key), TRUE) IN
       /\ componentPools' =
              Set0(componentPools, iter.pool,
                   IF key \in DOMAIN PoolOf(T).compKeyToCompIndex
                   THEN [lk.p EXCEPT !.compKeyToCompIndex[key] =
                             ListErase(@, FreshNode(PoolOf(T).compKeyToCompIndex[key]))]
                   ELSE lk.p)
       /\ last' = Op("EntitiesWithKey", NullId, T, key, lk.err)
    /\ UNCHANGED <<emVars, evVars, entCompMasks, compTypeToCompIndex, iter, crashed>>

\* the loop of EntityManager::DestroyAllWith from node k of the bucket on: ent.Destroy()
\* for the entity of each node before the sentinel whose mask has the bit of the
\* pool; an error ends it (0: an Assert of operator* failed)
RECURSIVE DestroyEach(_, _, _)
DestroyEach(w, it, k) ==
    LET p == At0(w.componentPools, it.pool)
        lst == p.compKeyToCompIndex[it.key]
    IN  IF k = 0 THEN [w EXCEPT !.err = "assertion"]
        ELSE IF lst[k].nid = it.endIter THEN w
        ELSE LET d == DestroyIn(w, KeyedDeref(p, lst[k]))
                 q == At0(d.componentPools, it.pool)
             IN  IF d.err # "ok" THEN d
                 ELSE DestroyEach(d, it,
                                  NextMatchKeyed(q, d.entCompMasks, it.compMask,
                                                 q.compKeyToCompIndex[it.key],
                                                 NodePos(q.compKeyToCompIndex[it.key],
                                                         lst[k].nid) + 1,
                                                 it.endIter))

\* the end of DestroyAllWith: entityCollection dies, when the loop is over or while
\* what the loop threw unwinds; an error that leaves its destructor ends the program
Collected(w, it) ==
    IF w.err = "assertion" THEN w
    ELSE LET r == Release(w.componentPools, it)
         IN  [w EXCEPT !.componentPools = r.pools,
                       !.err = IF r.err = "ok" THEN w.err ELSE "terminate"]

\* EntityManager::DestroyAllWith<T>(key) in the state w, no traversal of the pool of T
\* under way
DestroyedAllWith(w, T, key) ==
    IF ~Registered(T) THEN [w EXCEPT !.err = "invalid_argument"]
    ELSE IF ~PoolOf(T).keyed THEN w
    ELSE LET d == compTypeToCompIndex[T]
             lk == toggleSoftRemove(WithSentinel(At0(w.componentPools, d), key), TRUE)
             lst == lk.p.compKeyToCompIndex[key]
             it == [Idle EXCEPT !.keyed = TRUE, !.pool = d, !.compMask = {d}, !.key = key,
                                !.empty = key \notin DOMAIN lk.p.compKeyToCompIndex]
             locked == [w EXCEPT !.componentPools = Set0(@, d, lk.p)]
         IN  IF lk.err # "ok" THEN [w EXCEPT !.err = lk.err]
             ELSE IF it.empty THEN Collected(locked, it)
             ELSE Collected(DestroyEach(locked, [it EXCEPT !.endIter = lst[Len(lst)].nid],
                                        NextMatchKeyed(lk.p, w.entCompMasks, {d}, lst, 1,
                                                       lst[Len(lst)].nid)),
                            [it EXCEPT !.endIter = lst[Len(lst)].nid])

\* EntityManager::DestroyAllWith<T>(key), called outside every loop
DestroyAllWith(T, key, maxGen) ==
    /\ ~crashed
    /\ ~Running
    /\ \A e \in LiveIds : e.gen < maxGen
    /\ LET w == DestroyedAllWith(World, T, key) IN
       /\ Becomes(w)
       /\ last' = [Op("DestroyAllWith", NullId, T, key, w.err) EXCEPT !.delivered = w.delivered]
    /\ iter' = Idle
    /\ UNCHANGED <<compTypeToCompIndex, emit>>

\* for (Entity ent : em.EntitiesWith<T>()): CreateMask<T>() throws for a type it does
\* not know, and otherwise the traversal starts
EntitiesWithTypes(T) ==
    IF Registered(T)
    THEN EntitiesWith({compTypeToCompIndex[T]})
    ELSE /\ ~crashed
         /\ ~Running
         /\ last' = Op("EntitiesWith", NullId, T, 0, "invalid_argument")
         /\ iter' = Idle
         /\ UNCHANGED <<emVars, cmVars, evVars, crashed>>

\* the client calls a const query and keeps what it returned or threw: [err, value]
Asked(op, e, T, r) ==
    /\ ~crashed
    /\ e \in LiveIds
    /\ last' = Op(op, e, T, r.value, r.err)
    /\ UNCHANGED <<emVars, cmVars, evVars, crashed>>
    /\ BodyStep({}, FALSE, FALSE)

\* a bool the client keeps, as a number
Truth(r) == [err |-> r.err, value |-> IF r.value THEN 1 ELSE 0]

\* e.Has<T>(), e.Get<T>(), e.Has<T>(key)
CallHas(e, T) == Asked("Has", e, T, Truth(Has(T, e)))
CallGet(e, T) == Asked("Get", e, T, Get(T, e))
CallHasKey(e, T, key) == T \in KeyedTypes /\ Asked("HasKey", e, T, Truth(HasKey(T, e, key)))

\* ------------------------------------------------------ specifications
RegisteredBits == {compTypeToCompIndex[T] : T \in DOMAIN compTypeToCompIndex}

\* Spec: a client that uses one plain component type in every way it can, traversals
\* included, and destroys any identity
Next ==
    \/ NewEntity(MaxIndex)
    \/ RegisterComponentType("A")
    \/ \E e \in LiveIds, v \in Val : Set(e, "A", v, FALSE, MaxPool)
    \/ \E e \in LiveIds : Remove(e, "A")
    \/ \E e \in LiveIds : RemoveAllComponents(e)
    \/ \E e \in KnownIds : e.gen <= MaxGen /\ Destroy(e, MaxGen)
    \/ \E compMask \in SUBSET RegisteredBits : EntitiesWith(compMask)
    \/ Advance
    \/ Break

Spec == Init /\ [][Next]_vars

\* SpecLife: the life cycle of identities: a client that creates entities, gives them
\* a component, subscribes to their destruction and destroys any identity it can name
NextLife ==
    \/ NewEntity(MaxIndex)
    \/ \E e \in LiveIds : ~Has("A", e).value /\ Set(e, "A", 1, FALSE, LifeMaxPool)
    \/ \E e \in KnownIds : Destroy(e, LifeMaxGen)
    \/ Subscribe("EntityDestruction", Observe, MaxSubs)
    \/ \E e \in LiveIds : SubscribeEntity("EntityDestruction", Observe, e, MaxSubs)

SpecLife == Init /\ [][NextLife]_vars

\* SpecIter: traversals over one plain type by a client that never sets a component
\* an entity already has, and whose loop bodies create, destroy, set and remove
NextIter ==
    \/ NewEntity(IterMaxIndex)
    \/ \E e \in LiveIds : ~Has("A", e).value /\ Set(e, "A", e.index, FALSE, IterMaxPool)
    \/ \E e \in LiveIds : Has("A", e).value /\ Remove(e, "A")
    \/ \E e \in LiveIds : Destroy(e, MaxGen)
    \/ \E compMask \in SUBSET RegisteredBits : EntitiesWith(compMask)
    \/ Advance
    \/ Break

SpecIter == Init /\ [][NextIter]_vars

\* SpecQuery: queries over two plain types; the client sets each component once per
\* entity and removes only components of type "A"
NextQuery ==
    \/ NewEntity(IterMaxIndex)
    \/ \E e \in LiveIds, T \in {"A", "B"} :
           ~Has(T, e).value /\ Set(e, T, e.index, FALSE, IterMaxPool)
    \/ \E e \in LiveIds : Has("A", e).value /\ Remove(e, "A")
    \/ \E compMask \in SUBSET RegisteredBits : EntitiesWith(compMask)
    \/ Advance
    \/ Break

SpecQuery == Init /\ [][NextQuery]_vars

\* SpecKeyed: a keyed type, its buckets, and both kinds of traversal over its pool
NextKeyed ==
    \/ NewEntity(MaxIndex)
    \/ \E e \in LiveIds, key \in Val : Set(e, "K", key, TRUE, KeyedMaxPool)
    \/ \E e \in LiveIds : Has("K", e).value /\ Remove(e, "K")
    \/ \E e \in LiveIds : Destroy(e, MaxGen)
    \/ \E compMask \in SUBSET RegisteredBits : EntitiesWith(compMask)
    \/ \E key \in Val : EntitiesWithKey("K", key)
    \/ Advance
    \/ Break

SpecKeyed == Init /\ [][NextKeyed]_vars

\* SpecMixed: the client of SpecKeyed, which also attaches components of the keyed
\* type through the non-keyed Set, as the fixture of the keyed tests does
NextMixed ==
    \/ NewEntity(MaxIndex)
    \/ \E e \in LiveIds, key \in Val : Set(e, "K", key, TRUE, KeyedMaxPool)
    \/ \E e \in LiveIds, v \in Val : Set(e, "K", v, FALSE, KeyedMaxPool)
    \/ \E e \in LiveIds : Has("K", e).value /\ Remove(e, "K")
    \/ \E e \in LiveIds : Destroy(e, MaxGen)
    \/ \E compMask \in SUBSET RegisteredBits : EntitiesWith(compMask)
    \/ \E key \in Val : EntitiesWithKey("K", key)
    \/ Advance
    \/ Break

SpecMixed == Init /\ [][NextMixed]_vars

\* SpecReg: a client of a plain and a keyed type that queries them before and after
\* they are registered; its loop bodies only query
NextReg ==
    \/ ~Running /\ NewEntity(EvMaxIndex)
    \/ \E T \in {"A", "K"} : ~Running /\ RegisterComponentType(T)
    \/ \E e \in LiveIds, v \in Val : ~Running /\ Set(e, "A", v, FALSE, KeyedMaxPool)
    \/ \E e \in LiveIds, key \in Val : ~Running /\ Set(e, "K", key, TRUE, KeyedMaxPool)
    \/ \E e \in LiveIds, T \in {"A", "K"} : ~Running /\ Remove(e, T)
    \/ \E e \in LiveIds, T \in {"A", "K"} : CallHas(e, T)
    \/ \E e \in LiveIds, T \in {"A", "K"} : CallGet(e, T)
    \/ \E e \in LiveIds, key \in Val : CallHasKey(e, "K", key)
    \/ \E T \in {"A", "K"} : EntitiesWithTypes(T)
    \/ Advance
    \/ Break

SpecReg == Init /\ [][NextReg]_vars

\* SpecMax: a client that has more component types than a mask has bits and registers
\* them, explicitly or by a first Set
NextMax ==
    \/ NewEntity(EvMaxIndex)
    \/ \E T \in Types : RegisterComponentType(T)
    \/ \E e \in LiveIds, T \in Types \ KeyedTypes : Set(e, T, 1, FALSE, LifeMaxPool)
    \/ \E e \in LiveIds, T \in KeyedTypes : Set(e, T, 1, TRUE, LifeMaxPool)

SpecMax == Init /\ [][NextMax]_vars

\* SpecReuse: a client that subscribes callbacks to its entities, destroys entities,
\* creates new ones until indexes are reused, and emits to every identity it ever held
NextReuse ==
    \/ ~Dispatching /\ NewEntity(MaxIndex)
    \/ \E e \in LiveIds : ~Dispatching /\ Destroy(e, MaxGen)
    \/ \E e \in LiveIds :
           /\ ~Dispatching /\ Len(subscriptions) < EvMaxHandles
           /\ SubscribeEntity("X", Observe, e, EvMaxSubs)
    \/ \E e \in KnownIds : e.index # 0 /\ e.gen <= MaxGen /\ Emit(e, "X")
    \/ Dispatch

SpecReuse == Init /\ [][NextReuse]_vars

\* SpecNull: the client of SpecIter, which also destroys every entity at once and
\* presents any identity, those of index 0 included, to Destroy
NextNull ==
    \/ NewEntity(IterMaxIndex)
    \/ \E e \in LiveIds : ~Has("A", e).value /\ Set(e, "A", e.index, FALSE, IterMaxPool)
    \/ \E e \in LiveIds : Has("A", e).value /\ Remove(e, "A")
    \/ \E e \in KnownIds : e.gen <= MaxGen /\ Destroy(e, MaxGen)
    \/ DestroyAll(MaxGen)
    \/ \E compMask \in SUBSET RegisteredBits : EntitiesWith(compMask)
    \/ Advance
    \/ Break

SpecNull == Init /\ [][NextNull]_vars

\* SpecLock: the client of SpecIter without Destroy, whose pool has room for a record
\* more than it has entities
NextLock ==
    \/ NewEntity(IterMaxIndex)
    \/ \E e \in LiveIds : ~Has("A", e).value /\ Set(e, "A", e.index, FALSE, LockMaxPool)
    \/ \E e \in LiveIds : Has("A", e).value /\ Remove(e, "A")
    \/ \E compMask \in SUBSET RegisteredBits : EntitiesWith(compMask)
    \/ Advance
    \/ Break

SpecLock == Init /\ [][NextLock]_vars

\* SpecNested: the client of SpecKeyed, whose loop bodies also start traversals of the
\* pool they are iterating
NextNested ==
    \/ NewEntity(MaxIndex)
    \/ \E e \in LiveIds, key \in Val : Set(e, "K", key, TRUE, KeyedMaxPool)
    \/ \E e \in LiveIds : Has("K", e).value /\ Remove(e, "K")
    \/ \E e \in LiveIds : Destroy(e, MaxGen)
    \/ \E compMask \in SUBSET RegisteredBits : EntitiesWith(compMask)
    \/ \E key \in Val : EntitiesWithKey("K", key)
    \/ \E compMask \in SUBSET RegisteredBits : NestedEntitiesWith(compMask)
    \/ \E key \in Val : NestedEntitiesWithKey("K", key)
    \/ Advance
    \/ Break

SpecNested == Init /\ [][NextNested]_vars

\* SpecWith: a keyed type whose entities the client creates, keys, destroys one by one
\* and destroys by key
NextWith ==
    \/ NewEntity(MaxIndex)
    \/ \E e \in LiveIds, key \in Val : Set(e, "K", key, TRUE, IterMaxPool)
    \/ \E e \in LiveIds : Has("K", e).value /\ Remove(e, "K")
    \/ \E e \in LiveIds : Destroy(e, MaxGen)
    \/ \E key \in Val : DestroyAllWith("K", key, MaxGen)

SpecWith == Init /\ [][NextWith]_vars

\* the lists hold a callback that a callback subscribed
LateSubscribed ==
    \E h \in DOMAIN subscriptions :
        LET l == subscriptions[h].entityConnectionList IN
        /\ SignalExists(World, l)
        /\ \E k \in 1..Len(Signal(World, l)) : Signal(World, l)[k].cb = Late

\* SpecResub: a client whose callbacks subscribe further callbacks to the event they are
\* called for; it emits while no callback that a callback subscribed is attached yet
NextResub ==
    \/ ~Dispatching /\ NewEntity(EvMaxIndex)
    \/ \E callback \in {Observe, SubscribeCb, SubscribeEntityCb} :
           /\ ~Dispatching /\ Len(subscriptions) < EvMaxHandles - 1
           /\ Subscribe("X", callback, EvMaxSubs)
    \/ \E e \in LiveIds, callback \in {Observe, SubscribeCb, SubscribeEntityCb} :
           /\ ~Dispatching /\ Len(subscriptions) < EvMaxHandles - 1
           /\ SubscribeEntity("X", callback, e, EvMaxSubs)
    \/ \E e \in LiveIds : ~LateSubscribed /\ Emit(e, "X")
    \/ Dispatch

SpecResub == Init /\ [][NextResub]_vars

\* SpecCycle: a client that keeps creating and destroying entities through the handles
\* NewEntity gave it, one at a time or all at once, and never stops doing either while
\* it can
NextCycle ==
    \/ NewEntity(MaxIndex)
    \/ \E e \in LiveIds : ~Has("A", e).value /\ Set(e, "A", 1, FALSE, LifeMaxPool)
    \/ \E e \in LiveIds : Destroy(e, LifeMaxGen)
    \/ DestroyAll(LifeMaxGen)
    \/ \E e \in LiveIds : SubscribeEntity("EntityDestruction", Observe, e, MaxSubs)

SpecCycle ==
    /\ Init /\ [][NextCycle]_vars
    /\ WF_vars(NewEntity(MaxIndex))
    /\ WF_vars(\E e \in LiveIds : Destroy(e, LifeMaxGen))

\* the callbacks the client of SpecEvents subscribes
Callbacks == {Observe, DestroyCb} \cup {UnsubscribeCb(h) : h \in 1..EvMaxHandles}

\* SpecEvents: a client of the event bus: it subscribes callbacks that read, unsubscribe
\* or destroy, keeps, copies and uses the Subscriptions, and emits; while an Emit runs
\* only its callbacks do
NextEvents ==
    \/ ~Dispatching /\ NewEntity(EvMaxIndex)
    \/ ~Dispatching /\ \E e \in LiveIds : Destroy(e, MaxGen)
    \/ \E callback \in Callbacks :
           /\ ~Dispatching /\ Len(subscriptions) < EvMaxHandles
           /\ Subscribe("X", callback, EvMaxSubs)
    \/ \E callback \in Callbacks \ {DestroyCb} :
           /\ ~Dispatching /\ Len(subscriptions) < EvMaxHandles
           /\ SubscribeNonEntity("X", callback, EvMaxSubs)
    \/ \E e \in LiveIds, Event \in Events, callback \in Callbacks :
           /\ ~Dispatching /\ Len(subscriptions) < EvMaxHandles
           /\ Event = "EntityDestruction" => callback = Observe
           /\ SubscribeEntity(Event, callback, e, EvMaxSubs)
    \/ \E h \in DOMAIN subscriptions : ~Dispatching /\ Unsubscribe(h)
    \/ \E h \in DOMAIN subscriptions : ~Dispatching /\ CopySubscription(h, EvMaxHandles)
    \/ ~Dispatching /\ NewSubscription(EvMaxHandles)
    \/ \E e \in LiveIds : Emit(e, "X")
    \/ EmitNonEntity("X")
    \/ Dispatch

SpecEvents == Init /\ [][NextEvents]_vars

\* =============================================================== claims
\* the identity is valid as the contract defines it: alive flag set, generation equal
IsAlive(e) == At0(indexIsAlive, e.index) /\ e.gen = At0(entIndexToGen, e.index)

\* the records of pool p that entity e owns
RecordsOf(p, e) == {k \in 1..Len(p.components) : p.components[k].eid = e}

\* C1: right after a successful Set<T>(e, v), Has<T>(e) is true and Get<T>(e) returns v;
\* right after a successful Remove<T>(e), Has<T>(e) is false and Get<T>(e) fails; a Set
\* that follows the Remove makes Get return the new value, not the removed one.
C1_SetGetRemove ==
    /\ (last.op = "Set" /\ last.err = "ok") =>
           /\ Has(last.t, last.e) = [err |-> "ok", value |-> TRUE]
           /\ Get(last.t, last.e) = [err |-> "ok", value |-> last.v]
    /\ (last.op = "Remove" /\ last.err = "ok") =>
           /\ Has(last.t, last.e) = [err |-> "ok", value |-> FALSE]
           /\ Get(last.t, last.e).err # "ok"

\* C1 happens: a Set<T>(e, v2) right after a Remove<T>(e) that took away another value
C1_Witness ==
    /\ last.op = "Set" /\ last.err = "ok"
    /\ last.stale # 0 /\ last.stale # last.v
    /\ Get(last.t, last.e).value = last.v

\* C2: a pool never holds two records owned by the same entity (a Set on an entity
\* that has the component overwrites its record and the pool does not grow).
C2_OneRecordPerEntity ==
    \A i \in 0..(Len(componentPools) - 1) : \A e \in LiveIds :
        Cardinality(RecordsOf(At0(componentPools, i), e)) <= 1

\* C3: for every entity index and every registered type, the mask bit is set if and
\* only if the type's pool holds a record of that index that entIndexToCompIndex points to.
C3_MaskMatchesPool ==
    ~crashed =>
    \A x \in 1..(Len(entCompMasks) - 1) : \A i \in 0..(Len(componentPools) - 1) :
        LET p == At0(componentPools, i) IN
        (i \in At0(entCompMasks, x)) <=>
            \E k \in 0..(Size(p) - 1) :
                /\ entityAt(p, k).index = x
                /\ x \in DOMAIN p.entIndexToCompIndex
                /\ p.entIndexToCompIndex[x] = k

\* the entities that own a component of the pool a traversal ran over
Owners(i) == {e \in LiveIds : i \in MaskOf(e)}

\* C4: when a traversal whose body only removed components or destroyed entities has
\* ended and its lock is released, the deferred removals have run without error, every
\* entity that still owns the component reads its own value, and the pool holds one
\* record per owner.
C4_DrainRemovesExactly ==
    (iter.phase = "done" /\ iter.mutated /\ ~iter.added) =>
        /\ ~crashed
        /\ \A e \in Owners(iter.pool) :
               LET p == At0(componentPools, iter.pool) IN
               ComponentPool_Get(p, e) = [err |-> "ok", value |-> e.index]
        /\ Size(At0(componentPools, iter.pool)) = Cardinality(Owners(iter.pool))

\* C5: a traversal whose body only destroys and removes has, when it ends, visited
\* exactly the entities that satisfied the mask at its start and still did when reached,
\* each once.
C5_VisitsSurvivors ==
    (iter.phase = "done" /\ iter.mutated /\ ~iter.broke /\ ~iter.added /\ iter.created = {}) =>
        /\ Range(iter.visited) = iter.start \ iter.lost
        /\ Len(iter.visited) = Cardinality(iter.start \ iter.lost)

\* C6: an entity created during a traversal is not visited by that traversal, whether
\* the traversal is driven by a mask or by a key.
C6_CreatedNeverVisited ==
    iter.created \cap Range(iter.visited) = {}

\* C6 happens: a keyed traversal that visited an entity has ended, and an entity created
\* in its body holds the queried key
C6_Witness ==
    /\ iter.phase = "done" /\ iter.keyed /\ ~crashed
    /\ iter.visited # << >>
    /\ \E c \in iter.created : Get("K", c) = [err |-> "ok", value |-> iter.key]

\* C7: a traversal over two types whose body changes nothing yields exactly the entities
\* whose mask has both bits, each once.
C7_YieldsExactlyBoth ==
    (iter.phase = "done" /\ ~iter.mutated /\ ~iter.broke /\ Cardinality(iter.compMask) = 2) =>
        /\ Range(iter.visited) = iter.start
        /\ Len(iter.visited) = Cardinality(iter.start)

\* C8: for every identity whose index is within the tables, Valid is true if and only
\* if the index's alive flag is set and the generation equals the stored one.
C8_ValidIffAliveAndGeneration ==
    \A e \in KnownIds : Valid(e) <=> IsAlive(e)

\* C9: a Destroy of an identity that is not valid fails with invalid_argument and
\* changes nothing: tables, free-list, masks, pools and subscriptions stay as they were
\* and no callback runs.
C9_InvalidDestroyChangesNothing ==
    [][\A e \in KnownIds :
           (~IsAlive(e) /\ Destroy(e, LifeMaxGen)) =>
               /\ last'.err = "invalid_argument"
               /\ last'.delivered = << >>
               /\ ~crashed'
               /\ UNCHANGED <<emVars, cmVars, evVars>>]_vars

\* C10: a stored generation changes only in a successful Destroy of its index, and then
\* by exactly 1; an index that enters the tables starts at generation 0.
C10_GenerationSteps ==
    [][/\ Len(entIndexToGen') >= Len(entIndexToGen)
       /\ \A i \in 0..(Len(entIndexToGen') - 1) :
              IF i >= Len(entIndexToGen) THEN At0(entIndexToGen', i) = 0
              ELSE \/ At0(entIndexToGen', i) = At0(entIndexToGen, i)
                   \/ /\ last'.op = "Destroy" /\ last'.err = "ok" /\ last'.e.index = i
                      /\ At0(entIndexToGen', i) = At0(entIndexToGen, i) + 1
       /\ (last'.op = "Destroy" /\ last'.err = "ok") =>
              At0(entIndexToGen', last'.e.index) = At0(entIndexToGen, last'.e.index) + 1]_vars

\* C10 happens: an index has been destroyed twice
C10_Witness ==
    /\ last.op = "Destroy" /\ last.err = "ok"
    /\ At0(entIndexToGen, last.e.index) = 2

C12_RecycleAtThreshold ==
    /\ [][(last'.op = "NewEntity") =>
             IF Len(freeEntityIndexes) >= ECS_ENTITY_RECYCLE_COUNT
             THEN /\ last'.e.index = Head(freeEntityIndexes)
                  /\ freeEntityIndexes' = Tail(freeEntityIndexes)
                  /\ Len(entIndexToGen') = Len(entIndexToGen)
                  /\ Len(indexIsAlive') = Len(indexIsAlive)
                  /\ Len(entCompMasks') = Len(entCompMasks)
             ELSE /\ last'.e = Id(Len(entIndexToGen), 0)
                  /\ freeEntityIndexes' = freeEntityIndexes
                  /\ entIndexToGen' = Append(entIndexToGen, 0)
                  /\ Len(indexIsAlive') = Len(indexIsAlive) + 1
                  /\ Len(entCompMasks') = Len(entCompMasks) + 1]_vars
    /\ <>(last.op = "NewEntity" /\ last.e.gen > 0)

\* C12 happens: NewEntity returned a recycled index, of generation > 0, and left the
\* free-list just below the threshold
C12_Witness ==
    /\ last.op = "NewEntity" /\ last.err = "ok" /\ last.e.gen > 0
    /\ Len(freeEntityIndexes) = ECS_ENTITY_RECYCLE_COUNT - 1

\* the identities NewEntity has returned so far
IssuedIds ==
    {e \in KnownIds : e.index # 0 /\ (e.gen < At0(entIndexToGen, e.index) \/ IsAlive(e))}

\* C13: when DestroyAll returns no index is alive and every identity issued before the
\* call is invalid; a DestroyAll that finds nothing alive returns without error and
\* changes nothing.
C13_DestroyAllLeavesNothing ==
    [][(last'.op = "DestroyAll") =>
           /\ last'.err = "ok" => 
                  /\ \A i \in 0..(Len(indexIsAlive') - 1) : ~At0(indexIsAlive', i)
                  /\ \A e \in IssuedIds : e.gen # At0(entIndexToGen', e.index)
           /\ LiveIds = {} =>
                  /\ last'.err = "ok" /\ ~crashed'
                  /\ UNCHANGED <<emVars, cmVars, evVars>>]_vars

\* C13 happens: one DestroyAll destroyed two entities, and each one's subscriber ran
C13_Witness ==
    /\ last.op = "DestroyAll" /\ last.err = "ok"
    /\ Len(last.delivered) = 2
    /\ last.delivered[1].connection # last.delivered[2].connection

\* C14: a Destroy that succeeds runs every destruction subscriber, the global ones before
\* the entity's, while nothing has changed yet: each one finds the entity valid and
\* alive, all the components it had before the call in its mask and readable, and its
\* subscriptions attached; the lists, components, generation, free-list and alive flag
\* change only after them.
C14_SubscribersSeeEntityIntact ==
    [][(last'.op = "Destroy" /\ last'.err = "ok") =>
           /\ Len(last'.delivered) = Len(Deliveries(World, last'.e))
           /\ \A k \in 1..Len(last'.delivered) :
                  /\ last'.delivered[k].connection = Deliveries(World, last'.e)[k].nid
                  /\ last'.delivered[k].valid
                  /\ last'.delivered[k].alive
                  /\ last'.delivered[k].mask = MaskOf(last'.e)
                  /\ last'.delivered[k].readable = MaskOf(last'.e)
                  /\ last'.delivered[k].lists =
                         (IF last'.e \in DOMAIN entityEventSignals
                          THEN DOMAIN entityEventSignals[last'.e] ELSE {})
           /\ last'.e \notin DOMAIN entityEventSignals'
           /\ At0(entCompMasks', last'.e.index) = {}
           /\ At0(entIndexToGen', last'.e.index) = last'.e.gen + 1
           /\ freeEntityIndexes' = Append(freeEntityIndexes, last'.e.index)
           /\ ~At0(indexIsAlive', last'.e.index)]_vars

\* C14 happens: a Destroy of an entity that had a component ran a global subscriber and
\* then a subscriber of the entity
C14_Witness ==
    /\ last.op = "Destroy" /\ last.err = "ok"
    /\ Len(last.delivered) = 2
    /\ last.delivered[1].mask # {}
    /\ last.delivered[2].lists = {"EntityDestruction"}

\* the positions of a list, in the list's order
Order(lst) == [k \in 1..Len(lst) |-> lst[k].nid]

\* the list behind a pointer of the manager's state, none if the list is not there
SignalOr(l) == IF SignalExists(World, l) THEN Signal(World, l) ELSE << >>

\* C15: an Emit(event, entity) whose callbacks only read has, when it returns, run the
\* callbacks of the global list of the event in subscription order and after them the
\* callbacks of the entity's list of the event in subscription order; an Emit(event)
\* has run the callbacks of the non-entity list of the event only, in subscription order.
C15_GlobalThenEntityInOrder ==
    (/\ last.op \in {"Emit", "EmitNonEntity", "Dispatch"} /\ last.err = "ok"
     /\ ~Dispatching /\ ~emit.mutated) =>
        /\ emit.called =
               IF emit.e # NullId
               THEN Order(SignalOr(ListRef("eventSignals", NullId, emit.event)))
                    \o Order(SignalOr(ListRef("entityEventSignals", emit.e, emit.event)))
               ELSE Order(SignalOr(ListRef("nonEntityEventSignals", NullId, emit.event)))
        /\ \A l \in {ListRef("eventSignals", NullId, emit.event),
                      ListRef("entityEventSignals", emit.e, emit.event),
                      ListRef("nonEntityEventSignals", NullId, emit.event)} :
               \A j, k \in 1..Len(SignalOr(l)) :
                   j < k => SignalOr(l)[j].nid < SignalOr(l)[k].nid

\* C15 happens: an Emit for an entity has returned after two global callbacks and one
\* callback of the entity, and a non-entity callback is subscribed to the event as well
C15_Witness ==
    /\ last.op = "Dispatch" /\ last.err = "ok" /\ ~Dispatching /\ ~emit.mutated
    /\ emit.e # NullId
    /\ Len(emit.called) = 3
    /\ Len(SignalOr(ListRef("entityEventSignals", emit.e, emit.event))) = 1

\* C16: while an Emit runs, whatever its callbacks unsubscribe or destroy, the list the
\* loop runs over exists and the cursor is at its end or at one of its entries.
C16_CursorNeverDangles ==
    Dispatching =>
        /\ SignalExists(World, emit.signal)
        /\ emit.connection = END \/ Connected(World, emit.signal, emit.connection)

\* the list and the position a Subscription refers to
ListOf(s) ==
    IF s.entityConnectionList # NullList THEN s.entityConnectionList ELSE s.connectionList
ConnectionOf(s) ==
    IF s.entityConnectionList # NullList THEN s.entityConnection ELSE s.connection

\* C17: the first Unsubscribe of a subscription erases its entry and no other; an
\* Unsubscribe of a subscription whose entry was erased before, through the same
\* Subscription or a copy of it, erases nothing and raises no error.
C17_UnsubscribeOnce ==
    [][\A h \in DOMAIN subscriptions :
           (last'.op = "Unsubscribe" /\ last'.v = h) =>
               IF Connected(World, ListOf(subscriptions[h]), ConnectionOf(subscriptions[h]))
               THEN /\ ~crashed' /\ last'.err = "ok"
                    /\ <<eventSignals', entityEventSignals', nonEntityEventSignals'>> =
                           LET w == WithSignal(World, ListOf(subscriptions[h]),
                                               ListErase(Signal(World, ListOf(subscriptions[h])),
                                                         ConnectionOf(subscriptions[h])))
                           IN <<w.eventSignals, w.entityEventSignals, w.nonEntityEventSignals>>
               ELSE (ListOf(subscriptions[h]) = NullList
                     \/ SignalExists(World, ListOf(subscriptions[h]))) =>
                        /\ ~crashed' /\ last'.err = "ok"
                        /\ UNCHANGED <<eventSignals, entityEventSignals,
                                       nonEntityEventSignals>>]_vars

\* C18: an Unsubscribe of a subscription to an entity that has been destroyed since
\* raises no error and changes no list.
C18_UnsubscribeAfterDestroy ==
    [][\A h \in DOMAIN subscriptions :
           (/\ last'.op = "Unsubscribe" /\ last'.v = h
            /\ ListOf(subscriptions[h]).reg = "entityEventSignals"
            /\ ~SignalExists(World, ListOf(subscriptions[h]))) =>
               /\ ~crashed' /\ last'.err = "ok"
               /\ UNCHANGED <<eventSignals, entityEventSignals, nonEntityEventSignals>>]_vars

\* C19: IsActive of a Subscription is true if and only if its callback is still in its
\* list, so that a later Emit of its event would call it.
C19_IsActiveIffSubscribed ==
    \A h \in DOMAIN subscriptions :
        IsActive(subscriptions[h]) <=>
            Connected(World, ListOf(subscriptions[h]), ConnectionOf(subscriptions[h]))

\* the entities that hold the value key in the keyed component type K
HoldersOf(key) == {e \in LiveIds : Get("K", e) = [err |-> "ok", value |-> key]}

\* C20: when an entity loses its keyed component, by Remove or by Destroy, outside any
\* traversal, every other entity that held a key value is still yielded by the keyed lookup
\* of that value, and a value that is left without a holder is looked up to no entity,
\* by EntitiesWith<K>(key) and by EntityWith<K>(key) alike.
C20_SharedKeyLookup ==
    [][\A e \in LiveIds :
          ( /\ Remove(e, "K") \/ Destroy(e, MaxGen)
            /\ ~Running /\ ~crashed' /\ last'.err = "ok" /\ Registered("K") )
          => \A key \in Val :
                /\ (HoldersOf(key) \ {e}) \subseteq
                       KeyedEntities(PoolOf("K"), entCompMasks, compTypeToCompIndex["K"], key)'
                /\ HoldersOf(key)' = {} =>
                       /\ KeyedEntities(PoolOf("K"), entCompMasks,
                                        compTypeToCompIndex["K"], key)' = {}
                       /\ KeyedEntity(PoolOf("K"), key)' = NullId]_vars

\* the nodes of the bucket of key in the keyed pool p
BucketOf(p, key) ==
    IF key \in DOMAIN p.compKeyToCompIndex THEN p.compKeyToCompIndex[key] ELSE << >>

\* C21: between the client's operations on a keyed type (outside any traversal),
\* EntitiesWith<K>(value) yields exactly the entities whose K component equals value,
\* every bucket position refers to a record of the pool that holds the bucket's value,
\* and EntityWith<K>(value) is the null entity only when no entity holds value.
C21_KeyedIndexExact ==
    (Registered("K") /\ ~Running /\ ~crashed) =>
        \A key \in Val :
            /\ KeyedEntities(PoolOf("K"), entCompMasks, compTypeToCompIndex["K"], key)
                   = HoldersOf(key)
            /\ \A k \in 1..Len(BucketOf(PoolOf("K"), key)) :
                   /\ BucketOf(PoolOf("K"), key)[k].idx \in 0..(Size(PoolOf("K")) - 1)
                   /\ At0(PoolOf("K").components, BucketOf(PoolOf("K"), key)[k].idx).value = key
            /\ KeyedEntity(PoolOf("K"), key) = NullId => HoldersOf(key) = {}

\* the entities whose current K component was attached by the non-keyed Set: the record
\* entIndexToCompIndex points to is in no bucket
NoKeyOwners ==
    {e \in LiveIds :
        /\ Has("K", e).value
        /\ ComponentPool_Get(PoolOf("K"), e).err = "ok"
        /\ At0(PoolOf("K").components, PoolOf("K").entIndexToCompIndex[e.index]).keyedList = 0}

\* C22: an entity whose K component was attached through the non-keyed Set is visited by
\* a full traversal EntitiesWith<K>() whose body changes nothing, is visited by no such
\* traversal EntitiesWith<K>(key), whatever the key, and is never what EntityWith<K>(key)
\* returns.
C22_NoKeyNeverByKey ==
    (Registered("K") /\ ~crashed) =>
        \A e \in NoKeyOwners :
            /\ ( /\ iter.phase = "done" /\ ~iter.mutated /\ ~iter.broke
                 /\ iter.compMask = {compTypeToCompIndex["K"]} ) =>
                      IF iter.keyed THEN e \notin Range(iter.visited)
                                    ELSE e \in Range(iter.visited)
            /\ ~Running => \A key \in Val : KeyedEntity(PoolOf("K"), key) # e

\* the errors of the invalid-argument class that name an unknown type
Unrecognized == {"UnrecognizedComponentType", "invalid_argument"}

\* the step is the call e.Has<T>(), e.Get<T>(), e.Remove<T>() or e.Has<T>(key)
EntityCallOn(e, T, key) ==
    CallHas(e, T) \/ CallGet(e, T) \/ Remove(e, T) \/ CallHasKey(e, T, key)

\* the call failed for the unknown type and registered nothing
FailedUnrecognized ==
    last'.err \in Unrecognized /\ UNCHANGED cmVars

\* C23: Has<T>, Get<T>, Remove<T>, Has<T>(key) and EntitiesWith<T>() on a type that is not
\* registered fail with an unrecognized-type error and register nothing; once the type
\* is registered the same call no longer fails for the type: Has, Has(key) and
\* EntitiesWith succeed, and Get and Remove succeed exactly when the entity owns a
\* component of the type (they throw runtime_error when it does not).
C23_UnrecognizedUntilRegistered ==
    [][/\ \A T \in {"A", "K"} :
             EntitiesWithTypes(T) =>
                 IF Registered(T) THEN last'.err = "ok" ELSE FailedUnrecognized
       /\ \A e \in LiveIds, T \in {"A", "K"}, key \in Val :
             EntityCallOn(e, T, key) =>
                 IF ~Registered(T) THEN FailedUnrecognized
                 ELSE IF last'.op \in {"Get", "Remove"} /\ ~Has(T, e).value
                 THEN last'.err = "runtime_error" /\ UNCHANGED cmVars
                 ELSE last'.err = "ok"]_vars

\* C23 happens: a Get or Remove on a registered type has just failed for want of the
\* component
C23_Witness ==
    /\ last.op \in {"Get", "Remove"} /\ last.t \in DOMAIN compTypeToCompIndex
    /\ last.err = "runtime_error" /\ ~crashed

\* C23 as the claim states it: on a registered type every one of the calls succeeds
C23_RegisteredAlwaysSucceeds ==
    [][/\ \A T \in {"A", "K"} :
             EntitiesWithTypes(T) =>
                 IF Registered(T) THEN last'.err = "ok" ELSE FailedUnrecognized
       /\ \A e \in LiveIds, T \in {"A", "K"}, key \in Val :
             EntityCallOn(e, T, key) =>
                 IF Registered(T) THEN last'.err = "ok" ELSE FailedUnrecognized]_vars

\* C24: a registration when MAX_COMPONENTS types are registered fails at the call and
\* registers nothing, so the registry never holds more types than a mask has bits and
\* the bit position of every registered type is below MAX_COMPONENTS.
C24_RegistryFitsMask ==
    /\ Len(componentPools) <= MAX_COMPONENTS
    /\ Cardinality(DOMAIN compTypeToCompIndex) <= MAX_COMPONENTS
    /\ \A T \in DOMAIN compTypeToCompIndex : compTypeToCompIndex[T] < MAX_COMPONENTS
    /\ (last.op = "Register" /\ last.err = "ok") => compTypeToCompIndex[last.t] < MAX_COMPONENTS

\* C25: a Set<A> or a Remove<A> on one entity leaves what Get<A> returns for every other
\* entity that owns an A component as it was, also when the removal moves that record.
C25_OthersReadTheSame ==
    [][\A e1 \in LiveIds :
          ((\E v \in Val : Set(e1, "A", v, FALSE, MaxPool)) \/ Remove(e1, "A")) =>
              \A e2 \in LiveIds \ {e1} :
                  (Has("A", e2) = [err |-> "ok", value |-> TRUE]) =>
                      Get("A", e2)' = Get("A", e2)]_vars

\* the number of removals a pool has deferred
Deferred(p) == Len(p.softRemoveCompIndexes)

\* between two states, pool A has discarded n records at once and deferred d more
Discards(n, d) ==
    /\ Size(PoolOf("A"))' = Size(PoolOf("A")) - n
    /\ Deferred(PoolOf("A"))' = Deferred(PoolOf("A")) + d

\* one component of A is removed: at once, or deferred while a traversal holds the lock
RemovesOne == IF PoolOf("A").softRemoveMode THEN Discards(0, 1) ELSE Discards(1, 0)

LockedPool == At0(componentPools, iter.pool)

\* C27: when the body of a traversal leaves it early, the collection goes out of scope
\* without an error, the pool is out of soft-remove mode, every removal deferred during
\* the traversal is applied (the queue is empty, as many records are gone as were
\* deferred and no record without an owner is left), the sentinel of a keyed traversal
\* is out of its bucket, and a new traversal over the pool can start.
C27_BreakIsSafe ==
    [][Break =>
          /\ ~crashed' /\ last'.err = "ok"
          /\ ~LockedPool'.softRemoveMode
          /\ LockedPool'.softRemoveCompIndexes = << >>
          /\ Size(LockedPool') = Size(LockedPool) - Deferred(LockedPool)
          /\ \A c \in 0..(Size(LockedPool') - 1) : entityAt(LockedPool', c) # NullId
          /\ \A key \in DOMAIN LockedPool'.compKeyToCompIndex :
                 \A k \in 1..Len(LockedPool'.compKeyToCompIndex[key]) :
                     LockedPool'.compKeyToCompIndex[key][k].idx # INVALID_COMP_INDEX
          /\ toggleSoftRemove(LockedPool', TRUE).err = "ok"]_vars

\* C28: Remove<A>(e) on an entity whose mask has no bit for the registered type A throws
\* runtime_error at the call and leaves the masks, the pool of A (records, entity-to-slot
\* map, deferred queue) and every other pool as they were.
C28_RemoveOfMissingChangesNothing ==
    [][\A e \in LiveIds :
          (Remove(e, "A") /\ Registered("A") /\ ~Has("A", e).value) =>
              /\ last'.err = "runtime_error"
              /\ ~crashed'
              /\ UNCHANGED <<entCompMasks, componentPools, compTypeToCompIndex>>]_vars

\* C28 happens: a Remove has just failed on an entity without the component, while the
\* pool holds the record of another entity and a traversal has deferred a removal
C28_Witness ==
    /\ last.op = "Remove" /\ last.err = "runtime_error" /\ ~crashed
    /\ Registered("A")
    /\ Size(PoolOf("A")) > 0
    /\ Deferred(PoolOf("A")) > 0

\* the entities a callback (the node nid of a list) was subscribed to
SubscribedTo(nid) ==
    {subscriptions[h].entityConnectionList.e :
        h \in {k \in DOMAIN subscriptions :
                  /\ subscriptions[k].entityConnectionList.reg = "entityEventSignals"
                  /\ subscriptions[k].entityConnection = nid}}

\* C29: a callback that Emit invokes was never subscribed to an entity that has been
\* destroyed: whoever the Emit is addressed to (a stale identity, or the entity that
\* reuses the index), the callbacks of a destroyed entity stay silent.
C29_DestroyedEntityIsSilent ==
    [][(Dispatch /\ last'.op = "Dispatch" /\ last'.v # END) =>
          \A e \in SubscribedTo(last'.v) : e \in LiveIds /\ e = emit.e]_vars

\* C29 happens: an Emit addressed to the entity that reuses an index has invoked that
\* entity's callback, while a callback subscribed to the former holder of the index exists
C29_Witness ==
    /\ last.op = "Dispatch" /\ last.v # END /\ ~crashed
    /\ emit.e.gen > 0 /\ emit.e \in LiveIds
    /\ SubscribedTo(last.v) = {emit.e}
    /\ \E h \in DOMAIN subscriptions :
           /\ subscriptions[h].entityConnectionList.reg = "entityEventSignals"
           /\ subscriptions[h].entityConnectionList.e.index = emit.e.index
           /\ subscriptions[h].entityConnectionList.e.gen < emit.e.gen

\* C30: once an operation has returned and no traversal is open (the end of a keyed
\* traversal that removed the last entity of a bucket included), the keyed index of a
\* pool holds no key whose list of positions is empty.
C30_NoEmptyBucket ==
    (~crashed /\ ~Running) =>
        \A i \in 0..(Len(componentPools) - 1) :
            \A key \in DOMAIN At0(componentPools, i).compKeyToCompIndex :
                At0(componentPools, i).compKeyToCompIndex[key] # << >>

\* C31: no identity aliases another. NewEntity never returns an identity it has returned
\* before (the identities returned so far grow by exactly the one it returns, and by
\* nothing in any other operation), the identity it returns is valid, and an identity
\* that has stopped being valid never becomes valid again, also when its index is reused.
C31_NoIdentityAliases ==
    [][/\ IF last'.op = "NewEntity" /\ last'.err = "ok"
          THEN /\ last'.e \notin IssuedIds
               /\ last'.e.index # 0
               /\ IssuedIds' = IssuedIds \cup {last'.e}
               /\ last'.e.gen = At0(entIndexToGen', last'.e.index)
               /\ At0(indexIsAlive', last'.e.index)
          ELSE IssuedIds' = IssuedIds
       /\ \A e \in IssuedIds : ~Valid(e) => ~Valid(e)']_vars

\* C31 happens: NewEntity returned an index for the third time, and the two identities
\* that had the index before are invalid
C31_Witness ==
    /\ last.op = "NewEntity" /\ last.err = "ok" /\ last.e.gen = 2
    /\ Valid(last.e)
    /\ ~Valid(Id(last.e.index, 0)) /\ ~Valid(Id(last.e.index, 1))

C33_RemoveAllRemovesOnlyItsOwn ==
    [][\A e \in LiveIds :
           (RemoveAllComponents(e) /\ last'.op = "RemoveAllComponents" /\ last'.e = e) =>
               /\ last'.err = "ok" /\ ~crashed'
               /\ At0(entCompMasks', e.index) = {}
               /\ \A T \in DOMAIN compTypeToCompIndex :
                      /\ compTypeToCompIndex[T] \in MaskOf(e) => ~HasComponent(PoolOf(T)', e)
                      /\ \A x \in LiveIds \ {e} : Get(T, x)' = Get(T, x)]_vars

\* the pool p after a deferred removal of the record at slot c, owned by entity e
SoftRemoved(p, e, c) ==
    [p EXCEPT !.components = Set0(@, c, [At0(@, c) EXCEPT !.eid = NullId]),
              !.entIndexToCompIndex = [@ EXCEPT ![e.index] = INVALID_COMP_INDEX],
              !.softRemoveCompIndexes = Append(@, c)]

\* C34: while the iterate lock of a pool is held, a Remove of a component the entity has
\* in that pool succeeds and changes the pool in three places only: the owner of the
\* removed slot becomes the null identity, the entity's slot mapping becomes invalid and
\* the slot index joins the deferred queue; Size, the position, value and order of the
\* records, the mode and every other pool stay as they were.
C34_LockedRemoveOnlyMarks ==
    [][\A e \in LiveIds, T \in DOMAIN compTypeToCompIndex :
           (/\ PoolOf(T).softRemoveMode
            /\ compTypeToCompIndex[T] \in MaskOf(e)
            /\ Remove(e, T) /\ last'.op = "Remove" /\ last'.e = e /\ last'.t = T) =>
               /\ last'.err = "ok" /\ ~crashed'
               /\ Size(PoolOf(T)') = Size(PoolOf(T))
               /\ componentPools' =
                      Set0(componentPools, compTypeToCompIndex[T],
                           SoftRemoved(PoolOf(T), e, PoolOf(T).entIndexToCompIndex[e.index]))]_vars

\* C35: a pool has at most one iterate lock. A traversal started in the body of a loop
\* over its own driving pool (by EntitiesWith, or by DestroyAllWith through it) fails with
\* runtime_error and changes nothing: the pool stays in soft-remove mode with its deferred
\* queue as it was, and the outer traversal goes on from where it is.
C35_SecondLockFails ==
    [][(Running /\ last'.op \in {"EntitiesWith", "EntitiesWithKey"}) =>
           /\ last'.err = "runtime_error" /\ ~crashed'
           /\ At0(componentPools', iter.pool).softRemoveMode
           /\ componentPools' = componentPools
           /\ iter' = iter
           /\ UNCHANGED <<emVars, evVars, entCompMasks, compTypeToCompIndex>>]_vars

\* C35 happens: a keyed traversal inside a loop that had deferred a removal failed, and
\* the removal is still deferred
C35_Witness ==
    /\ Running /\ ~crashed
    /\ last.op = "EntitiesWithKey" /\ last.err = "runtime_error"
    /\ At0(componentPools, iter.pool).softRemoveMode
    /\ At0(componentPools, iter.pool).softRemoveCompIndexes # << >>
    /\ last.v \in DOMAIN At0(componentPools, iter.pool).compKeyToCompIndex

\* C36: a traversal yields no entity twice: the entities the loop body has received so
\* far are pairwise different.
C36_NoEntityYieldedTwice ==
    \A j, k \in 1..Len(iter.visited) : j # k => iter.visited[j] # iter.visited[k]

\* C37: the entity a traversal has just handed to the loop body is valid: its index is
\* alive and its generation is the stored one.
C37_YieldedIsValid ==
    (Running /\ last.op \in {"EntitiesWith", "EntitiesWithKey", "Advance"} /\ last.err = "ok") =>
        /\ last.e = iter.visited[Len(iter.visited)]
        /\ last.e.index # 0
        /\ IsAlive(last.e)

\* the callback of the node nid, wherever the node is
CallbackOf(nid) ==
    UNION {{Signal(World, l)[k].cb :
               k \in {j \in 1..(IF SignalExists(World, l) THEN Len(Signal(World, l)) ELSE 0) :
                         Signal(World, l)[j].nid = nid}} :
           l \in {subscriptions[h].entityConnectionList : h \in DOMAIN subscriptions}}

\* C38: an Emit invokes no callback that was subscribed while it ran. (The Emits of
\* SpecResub start while no callback that a callback subscribed is attached, so those
\* callbacks were all subscribed during the Emit that is running or ran last.)
C38_LateSubscriberWaits ==
    \A k \in 1..Len(emit.called) : Late \notin CallbackOf(emit.called[k])

\* the indexes other than 0 that are in the tables and not alive
DeadIndexes == {i \in 1..(Len(indexIsAlive) - 1) : ~At0(indexIsAlive, i)}

\* the indexes a successful DestroyAll has just destroyed, in the order it took them
RECURSIVE Ascending(_)
Ascending(S) ==
    IF S = {} THEN << >>
    ELSE LET m == CHOOSE x \in S : \A y \in S : x <= y IN <<m>> \o Ascending(S \ {m})

\* C39: the free-list is the queue of the dead indexes. After every operation it holds
\* exactly the indexes other than 0 that are in the tables and not alive, each once; it
\* changes only when a Destroy (or DestroyAll, index by index) appends the index it
\* destroyed and when NewEntity takes its head, the index destroyed longest ago, and
\* returns it.
C39_FreeListIsQueueOfDead ==
    [][/\ ~crashed' =>
              /\ Range(freeEntityIndexes') = DeadIndexes'
              /\ Len(freeEntityIndexes') = Cardinality(DeadIndexes')
       /\ \/ freeEntityIndexes' = freeEntityIndexes
          \/ /\ last'.op = "NewEntity"
             /\ freeEntityIndexes' = Tail(freeEntityIndexes)
             /\ last'.e.index = Head(freeEntityIndexes)
          \/ /\ last'.op = "Destroy" /\ last'.err = "ok"
             /\ At0(indexIsAlive, last'.e.index)
             /\ freeEntityIndexes' = Append(freeEntityIndexes, last'.e.index)
          \/ /\ last'.op = "DestroyAll"
             /\ freeEntityIndexes' =
                    freeEntityIndexes \o Ascending(DeadIndexes' \ DeadIndexes)]_vars

\* C39 happens: NewEntity has returned the index that was destroyed first, while the
\* index destroyed after it with a smaller number waits in the free-list
C39_Witness ==
    /\ last.op = "NewEntity" /\ last.err = "ok" /\ last.e.gen > 0
    /\ freeEntityIndexes # << >>
    /\ Head(freeEntityIndexes) < last.e.index

\* the live entities whose component of the keyed type T equals key
KeyedTargets(T, key) == {e \in LiveIds : Get(T, e) = [err |-> "ok", value |-> key]}

\* C40: DestroyAllWith(key) destroys every entity whose keyed component equals key at
\* the time of the call and no other entity; when it returns without error, those
\* entities are invalid, the other live entities are still alive, a keyed lookup for
\* key (EntitiesWith<K>(key), EntityWith<K>(key)) yields nothing, and the keyed pool
\* holds no record of a destroyed entity
C40_DestroyAllWithDestroysByKey ==
    [][\A key \in Val :
           (DestroyAllWith("K", key, MaxGen) /\ last'.err = "ok" /\ Registered("K")) =>
               /\ \A e \in KeyedTargets("K", key) :
                      /\ ~Valid(e)'
                      /\ ~At0(indexIsAlive', e.index)
                      /\ RecordsOf(PoolOf("K"), e)' = {}
               /\ \A e \in LiveIds \ KeyedTargets("K", key) :
                      Valid(e)' /\ At0(indexIsAlive', e.index)
               /\ KeyedEntities(PoolOf("K"), entCompMasks, compTypeToCompIndex["K"], key)' = {}
               /\ KeyedEntity(PoolOf("K"), key)' = NullId]_vars

====
